---- MODULE Spec2Model ----
(***************************************************************************)
(* Per-CPU instruction trace core of accel/tcg/log_instr.c.                *)
(*                                                                         *)
(* One emulated CPU is modelled.  The record `cpu` is the CPU's            *)
(* cpu_log_instr_state_t together with the entries the last operation      *)
(* handed to the backend (its emit_instr calls, in call order); `work` is  *)
(* the queue of callbacks handed to async_safe_run_on_cpu for this CPU.    *)
(***************************************************************************)
EXTENDS Integers, Sequences, FiniteSets, TLC

(* ------------------------------ bounds --------------------------------- *)
\* entries that may pass do_instr_commit (stored or emitted) in one run
MaxCommits == 4
\* entries that may pass the filters in a run of the filter pipeline
MaxFiltered == 2
\* loglevel switches are scheduled only while trace_start is below this
MaxSlices == 2
\* callbacks queued by async_safe_run_on_cpu and not yet run
MaxPending == 1
\* FLUSH events that flush may put in one entry
MaxFlushes == 1
\* largest ring size requested through set_buffer_size
MaxBufferSize == 3
\* register, memory, event and text records the target may put in one entry
MaxRecords == 1
\* CPUs of the machine the global switch walks
MaxCpus == 2
\* commits each of these CPUs makes
MaxTbCommits == 1
\* startup filters on the reset list
MaxStartup == 3
\* names in one filter specification of the command line
MaxNames == 3
\* steps of the loop of helper_qemu_log_printf_dump that are followed
MaxRenders == 8
\* rendered formats in one text buffer
MaxText == 3
\* the CPUs whose operations are followed where the backend is modelled
MaxFollowed == 1
\* the longest format string and the longest type string of a printf
MaxFmt == 4
MaxTypes == 2

(* ------------------------- program constants --------------------------- *)
\* MIN_ENTRY_BUFFER_SIZE is (1 << 16) in the source; the ring is scaled
\* down here, the comparison against it is kept.
MIN_ENTRY_BUFFER_SIZE == 2
\* number of rows of trace_filters[]
LOG_INSTR_FILTER_MAX == 2
\* The largest guint, the type of the length g_array_set_size takes.  It is
\* 2^32 - 1 in the source, where new_size is an unsigned long; scaled down
\* with the ring.
G_MAXUINT == 7

LOG_FILTER_MEM_REGIONS == 0
LOG_FILTER_EVENTS == 1

Levels == {"NONE", "USER", "ALL"}
Modes == {"USER", "SUPERVISOR"}
PCs == {1, 2}
NULL == "NULL"

(* ------------------------------ entries -------------------------------- *)
\* cpu_log_entry_t after qemu_log_entry_init on zeroed memory, which is also
\* what reset_log_buffer leaves: scalar fields zero, sequences empty.
EmptyEntry ==
    [flags |-> {}, next_cpu_mode |-> "ZERO", pc |-> 0,
     regs |-> <<>>, mem |-> <<>>, events |-> <<>>, txt_buffer |-> <<>>]

StateEvent(st, pc) == [id |-> "STATE", next_state |-> st, pc |-> pc]
\* gpr names the register array qemu_log_instr_event_create_regdump made
RegdumpEvent(gpr) == [id |-> "REGDUMP", gpr |-> gpr]
UserEvent == [id |-> "USER"]

HasEvent(entry, st) ==
    \E i \in 1..Len(entry.events) :
        entry.events[i].id = "STATE" /\ entry.events[i].next_state = st

NumFlush(entry) ==
    Cardinality({i \in 1..Len(entry.events) :
                    /\ entry.events[i].id = "STATE"
                    /\ entry.events[i].next_state = "FLUSH"})

VARIABLES
    cpu,            \* per-CPU log state, ring and backend calls
    qemu_loglevel,  \* process-wide log flags (subset of {INSTR, INSTR_U})
    work,           \* pending async_safe_run_on_cpu callbacks, FIFO
    cpu_mode,       \* the mode the target CPU is in (cpu_in_user_mode)
    debug_regions,  \* -dfilter ranges, NULL when the option was not given
    reset_entry_buffer_size, \* ring size given to CPUs created later
    aborted,        \* the run has ended: an assertion of the code has
                    \* failed, or the ring has no entry left to work on
    last,           \* the operation that led to this state
    obs,            \* scenario observers (history variables)
    machine         \* the CPUs CPU_FOREACH walks, each with its log state,
                    \* its pending callbacks and whether it is inside a
                    \* translation block, and the flag word the last
                    \* qemu_log_instr_global_switch returned

vars == <<cpu, qemu_loglevel, work, cpu_mode, debug_regions,
          reset_entry_buffer_size, aborted, last, obs, machine>>

(* --------------------------- small helpers ----------------------------- *)
RingLen(s) == Len(s.instr_info)

get_cpu_log_entry(s) == s.instr_info[s.ring_head + 1]

SetEntry(s, e) == [s EXCEPT !.instr_info[s.ring_head + 1] = e]

qemu_loglevel_mask(flags, bit) == bit \in flags

qemu_log_instr_check_enabled(s) ==
    qemu_loglevel_mask(qemu_loglevel, "INSTR") /\ s.loglevel_active

(* ------------------------- reset_log_buffer ---------------------------- *)
\* The places (slot, event index) of the ring slots `slots` (1-based) where
\* a REGDUMP event holds the register array gpr.
DumpHolders(s, slots, gpr) ==
    {h \in UNION {{<<k, i>> : i \in 1..Len(s.instr_info[k].events)} :
                      k \in slots} :
        /\ s.instr_info[h[1]].events[h[2]].id = "REGDUMP"
        /\ s.instr_info[h[1]].events[h[2]].gpr = gpr}

\* g_array_free(evt->reg_dump.gpr, true) for every REGDUMP event of the
\* slots: heap[gpr] counts the times the array gpr was freed
FreeDumps(s, slots) ==
    [gpr \in 1..Len(s.heap) |->
        s.heap[gpr] + Cardinality(DumpHolders(s, slots, gpr))]

\* slot is the 0-based ring index of the entry handed to reset_log_buffer
\* the event array is not emptied
reset_log_buffer_keepevents(s, slot) ==
    [s EXCEPT !.instr_info[slot + 1] =
                  [EmptyEntry EXCEPT !.events = s.instr_info[slot + 1].events],
              !.heap = FreeDumps(s, {slot + 1}),
              !.tags[slot + 1] = 0,
              !.force_drop = FALSE,
              !.starting = FALSE]

reset_log_buffer(s, slot) ==
    [s EXCEPT !.instr_info[slot + 1] = EmptyEntry,
              !.heap = FreeDumps(s, {slot + 1}),
              !.tags[slot + 1] = 0,
              !.force_drop = FALSE,
              !.starting = FALSE]

(* ------------------------------ filters -------------------------------- *)
range_contains(range, addr) == range.lob <= addr /\ addr <= range.upb

entry_mem_regions_filter(entry) ==
    IF debug_regions = NULL THEN TRUE
    ELSE \E i \in 1..Len(debug_regions) :
            \/ range_contains(debug_regions[i], entry.pc)
            \/ \E j \in 1..Len(entry.mem) :
                   range_contains(debug_regions[i], entry.mem[j].addr)

entry_event_filter(entry) == Len(entry.events) > 0

trace_filters(filter, entry) ==
    IF filter = LOG_FILTER_MEM_REGIONS
    THEN entry_mem_regions_filter(entry)
    ELSE entry_event_filter(entry)

\* The filter loop of do_instr_commit: the filters called, in call order,
\* and whether all of them returned true.
RECURSIVE RunFilters(_, _, _)
RunFilters(filters, entry, i) ==
    IF i > Len(filters) THEN [pass |-> TRUE, called |-> filters]
    ELSE IF ~trace_filters(filters[i], entry)
         THEN [pass |-> FALSE, called |-> SubSeq(filters, 1, i)]
         ELSE RunFilters(filters, entry, i + 1)

(* --------------------------- do_instr_commit --------------------------- *)
\* the call is made but not counted
emit_instr_nocount(s, slot) ==
    [s EXCEPT !.backend = Append(@, [tag |-> s.tags[slot + 1],
                                     entry |-> s.instr_info[slot + 1]]),
              !.last_emitted = s.tags[slot + 1]]

emit_instr(s, slot) ==
    [s EXCEPT !.backend = Append(@, [tag |-> s.tags[slot + 1],
                                     entry |-> s.instr_info[slot + 1]]),
              !.last_emitted = s.tags[slot + 1],
              !.entries_emitted = @ + 1]

\* the ring branch without the test for head catching tail
CommitPass_notail(s, called) ==
    LET t == [s EXCEPT !.tags[s.ring_head + 1] = s.ncommit + 1,
                       !.ncommit = @ + 1,
                       !.called = called]
    IN  IF t.buffered
        THEN [t EXCEPT !.ring_head = (t.ring_head + 1) % RingLen(t),
                       !.stored = Append(@, t.ncommit)]
        ELSE emit_instr(t, t.ring_head)

\* The part of do_instr_commit after the filters: the entry is stored in
\* the ring or handed to the backend.
CommitPass(s, called) ==
    LET t == [s EXCEPT !.tags[s.ring_head + 1] = s.ncommit + 1,
                       !.ncommit = @ + 1,
                       !.called = called]
    IN  IF t.buffered
        THEN LET head == (t.ring_head + 1) % RingLen(t)
                 tail == IF t.ring_tail = head
                         THEN (t.ring_tail + 1) % RingLen(t)
                         ELSE t.ring_tail
             IN  [t EXCEPT !.ring_head = head, !.ring_tail = tail,
                           !.stored = Append(@, t.ncommit)]
        ELSE emit_instr(t, t.ring_head)

\* the filter loop keeps the result of the last filter only
do_instr_commit_lastfilter(s) ==
    IF s.force_drop THEN [s EXCEPT !.called = <<>>]
    ELSE IF s.filters # <<>>
            /\ ~trace_filters(s.filters[Len(s.filters)], get_cpu_log_entry(s))
         THEN [s EXCEPT !.called = s.filters]
         ELSE CommitPass(s, s.filters)

do_instr_commit(s) ==
    IF s.force_drop THEN [s EXCEPT !.called = <<>>]
    ELSE LET r == RunFilters(s.filters, get_cpu_log_entry(s), 1)
         IN  IF ~r.pass THEN [s EXCEPT !.called = r.called]
             ELSE CommitPass(s, r.called)

(* ------------------------ qemu_log_instr_commit ------------------------ *)
qemu_log_instr_commit(s) ==
    LET t == do_instr_commit(s)
    IN  reset_log_buffer(t, t.ring_head)

(* ------------------------ do_cpu_loglevel_switch ----------------------- *)
emit_start_event(entry, pc) ==
    [entry EXCEPT !.flags = @ \ {"HAS_INSTR_DATA"},
                  !.pc = pc,
                  !.events = Append(@, StateEvent("START", pc))]

emit_stop_event(entry, pc) ==
    [entry EXCEPT !.events = Append(@, StateEvent("STOP", pc))]

\* The target's hook that fills the register dump; it returns true when it
\* has no dump to give.  The targets fill the dump.
cpu_log_instr_event_regdump == FALSE

\* the hook makes the register array of the event it fills
emit_regdump_event(s) ==
    IF cpu_log_instr_event_regdump THEN s
    ELSE LET entry == get_cpu_log_entry(s)
             gpr == Len(s.heap) + 1
         IN  SetEntry([s EXCEPT !.heap = Append(@, 0)],
                      [entry EXCEPT !.events = Append(@, RegdumpEvent(gpr))])

\* level USER looks at the mode of the CPU only, not at the mode switch
\* the current entry holds
NextLevelActive_inuser(s, arg, in_user) ==
    CASE arg.next_level = "NONE" -> FALSE
      [] arg.next_level = "ALL" -> TRUE
      [] arg.next_level = "USER" -> in_user

\* arg is a qemu_log_next_level_arg_t; recent_pc is cpu_get_recent_pc(env)
\* and in_user is cpu_in_user_mode(env) at the time the callback runs
NextLevelActive(s, arg, in_user) ==
    CASE arg.next_level = "NONE" -> FALSE
      [] arg.next_level = "ALL" -> TRUE
      [] arg.next_level = "USER" ->
            IF "MODE_SWITCH" \in get_cpu_log_entry(s).flags
            THEN get_cpu_log_entry(s).next_cpu_mode = "USER"
            ELSE in_user

\* the stop event is appended but the entry is not committed
SwitchStop_nocommit(s, pc) ==
    LET a == SetEntry(s, emit_stop_event(get_cpu_log_entry(s), pc))
        b == [a EXCEPT !.trace_stop = @ + 1]
    IN  reset_log_buffer(b, b.ring_head)

\* prev_level_active and not starting: stop event, commit, reset
SwitchStop(s, pc) ==
    LET a == SetEntry(s, emit_stop_event(get_cpu_log_entry(s), pc))
        b == [a EXCEPT !.trace_stop = @ + 1]
        c == do_instr_commit(b)
    IN  reset_log_buffer(c, c.ring_head)

\* next_level_active: the start is left pending in the current entry
SwitchStart(s, pc) ==
    LET a == [s EXCEPT !.starting = TRUE]
        b == emit_regdump_event(
                 SetEntry(a, emit_start_event(get_cpu_log_entry(a), pc)))
    IN  [b EXCEPT !.trace_start = @ + 1]

\* without the no-op check
do_cpu_loglevel_switch_nonoop(s, arg, recent_pc, in_user) ==
    LET pc == IF arg.global THEN recent_pc ELSE arg.pc
        next_level_active == NextLevelActive(s, arg, in_user)
        s1 == [s EXCEPT !.loglevel = arg.next_level,
                        !.loglevel_active = next_level_active]
    IN  IF s.loglevel_active /\ s.starting
        THEN reset_log_buffer(s1, s1.ring_head)
        ELSE LET s2 == IF s.loglevel_active THEN SwitchStop(s1, pc) ELSE s1
             IN  IF next_level_active THEN SwitchStart(s2, pc) ELSE s2

\* without the check of a pending start
do_cpu_loglevel_switch_eager(s, arg, recent_pc, in_user) ==
    LET pc == IF arg.global THEN recent_pc ELSE arg.pc
        next_level_active == NextLevelActive(s, arg, in_user)
        s1 == [s EXCEPT !.loglevel = arg.next_level,
                        !.loglevel_active = next_level_active]
    IN  IF arg.next_level = s.loglevel
           /\ s.loglevel_active = next_level_active
        THEN s1
        ELSE LET s2 == IF s.loglevel_active THEN SwitchStop(s1, pc) ELSE s1
             IN  IF next_level_active THEN SwitchStart(s2, pc) ELSE s2

\* the pc is always cpu_get_recent_pc
do_cpu_loglevel_switch_recentpc(s, arg, recent_pc, in_user) ==
    LET pc == recent_pc
        next_level_active == NextLevelActive(s, arg, in_user)
        s1 == [s EXCEPT !.loglevel = arg.next_level,
                        !.loglevel_active = next_level_active]
    IN  IF arg.next_level = s.loglevel
           /\ s.loglevel_active = next_level_active
        THEN s1
        ELSE IF s.loglevel_active /\ s.starting
        THEN reset_log_buffer(s1, s1.ring_head)
        ELSE LET s2 == IF s.loglevel_active THEN SwitchStop(s1, pc) ELSE s1
             IN  IF next_level_active THEN SwitchStart(s2, pc) ELSE s2

do_cpu_loglevel_switch(s, arg, recent_pc, in_user) ==
    LET pc == IF arg.global THEN recent_pc ELSE arg.pc
        next_level_active == NextLevelActive(s, arg, in_user)
        s1 == [s EXCEPT !.loglevel = arg.next_level,
                        !.loglevel_active = next_level_active]
    IN  IF arg.next_level = s.loglevel
           /\ s.loglevel_active = next_level_active
        THEN s1
        ELSE IF s.loglevel_active /\ s.starting
        THEN reset_log_buffer(s1, s1.ring_head)
        ELSE LET s2 == IF s.loglevel_active THEN SwitchStop(s1, pc) ELSE s1
             IN  IF next_level_active THEN SwitchStart(s2, pc) ELSE s2

(* -------------------------- qemu_log_instr_flush ----------------------- *)
\* the while loop of qemu_log_instr_flush, from slot curr up to ring_head
RECURSIVE FlushLoop(_, _)
FlushLoop(s, curr) ==
    IF curr = s.ring_head THEN s
    ELSE FlushLoop(emit_instr(s, curr), (curr + 1) % RingLen(s))

\* ring_tail is left where it was
qemu_log_instr_flush_keeptail(s) ==
    LET curr == s.ring_tail
        entry == get_cpu_log_entry(s)
        s1 == SetEntry(s, [entry EXCEPT !.events =
                              Append(@, StateEvent("FLUSH", entry.pc))])
        s2 == IF ~qemu_log_instr_check_enabled(s1)
              THEN qemu_log_instr_commit(s1)
              ELSE s1
    IN  IF ~s2.buffered THEN s2
        ELSE [FlushLoop(s2, curr) EXCEPT !.stored = <<>>]

qemu_log_instr_flush(s) ==
    LET curr == s.ring_tail
        entry == get_cpu_log_entry(s)
        s1 == SetEntry(s, [entry EXCEPT !.events =
                              Append(@, StateEvent("FLUSH", entry.pc))])
        s2 == IF ~qemu_log_instr_check_enabled(s1)
              THEN qemu_log_instr_commit(s1)
              ELSE s1
    IN  IF ~s2.buffered THEN s2
        ELSE [FlushLoop(s2, curr) EXCEPT !.ring_tail = s2.ring_head,
                                         !.stored = <<>>]

(* -------------------------- do_log_buffer_resize ----------------------- *)
\* qemu_log_entry_destroy on the ring slots `slots`, as far as the register
\* arrays go
qemu_log_entry_destroy(s, slots) == FreeDumps(s, slots)

\* the conversion of an unsigned long to the guint parameter of GLib
guint(n) == n % (G_MAXUINT + 1)

\* the entries a shrinking g_array_set_size removes are dropped without
\* qemu_log_entry_destroy
do_log_buffer_resize_noclear(s, new_size) ==
    [s EXCEPT !.instr_info = [i \in 1..guint(new_size) |-> EmptyEntry],
              !.heap = FreeDumps(s, {k \in 1..RingLen(s) :
                                        k <= guint(new_size)}),
              !.tags = [i \in 1..guint(new_size) |-> 0],
              !.ring_head = 0,
              !.ring_tail = 0,
              !.stored = <<>>,
              !.force_drop = FALSE,
              !.starting = FALSE]

\* g_array_set_size runs qemu_log_entry_destroy on the entries it removes
\* and zeroes the ones it adds; the loop resets the entries that are left
do_log_buffer_resize(s, new_size) ==
    [s EXCEPT !.instr_info = [i \in 1..guint(new_size) |-> EmptyEntry],
              !.heap = FreeDumps(
                           [s EXCEPT !.heap = qemu_log_entry_destroy(
                                s, {k \in 1..RingLen(s) :
                                       k > guint(new_size)})],
                           {k \in 1..RingLen(s) : k <= guint(new_size)}),
              !.tags = [i \in 1..guint(new_size) |-> 0],
              !.ring_head = 0,
              !.ring_tail = 0,
              !.stored = <<>>,
              \* cleared by reset_log_buffer, once per slot of the new ring
              !.force_drop = IF guint(new_size) > 0 THEN FALSE ELSE @,
              !.starting = IF guint(new_size) > 0 THEN FALSE ELSE @]

(* ------------------------------- filters ------------------------------- *)
InSeq(seq, x) == \E i \in 1..Len(seq) : seq[i] = x

FirstIndex(seq, x) == CHOOSE i \in 1..Len(seq) :
                          seq[i] = x /\ \A j \in 1..(i - 1) : seq[j] # x

\* g_array_remove_index_fast: the last element takes the removed place
g_array_remove_index_fast(seq, i) ==
    [k \in 1..(Len(seq) - 1) |-> IF k = i THEN seq[Len(seq)] ELSE seq[k]]

\* the filter is appended without the search for a duplicate
qemu_log_instr_add_filter_nodedup(s, filter) ==
    IF filter >= LOG_INSTR_FILTER_MAX THEN s
    ELSE [s EXCEPT !.filters = Append(@, filter)]

\* the filter index is not checked against the registry
qemu_log_instr_add_filter_nocheck(s, filter) ==
    IF InSeq(s.filters, filter) THEN s
    ELSE [s EXCEPT !.filters = Append(@, filter)]

qemu_log_instr_add_filter(s, filter) ==
    IF filter >= LOG_INSTR_FILTER_MAX THEN s
    ELSE IF InSeq(s.filters, filter) THEN s
    ELSE [s EXCEPT !.filters = Append(@, filter)]

qemu_log_instr_remove_filter(s, filter) ==
    IF filter >= LOG_INSTR_FILTER_MAX THEN s
    ELSE IF InSeq(s.filters, filter)
    THEN [s EXCEPT !.filters =
              g_array_remove_index_fast(@, FirstIndex(@, filter))]
    ELSE s

(* ---------------------------- qemu_log_instr_init ---------------------- *)
ZeroCpu(size) ==
    [loglevel |-> "NONE", loglevel_active |-> FALSE,
     starting |-> FALSE, force_drop |-> FALSE, buffered |-> FALSE,
     instr_info |-> [i \in 1..size |-> EmptyEntry],
     ring_head |-> 0, ring_tail |-> 0,
     filters |-> <<>>,
     entries_emitted |-> 0, trace_start |-> 0, trace_stop |-> 0,
     \* the emit_instr calls of the last operation, one element per call
     backend |-> <<>>,
     \* history: commit number of the entry held in each slot (0: none),
     \* entries passed by do_instr_commit, filters called by the last
     \* do_instr_commit, commit numbers of the entries stored in the ring
     \* since it was last drained, commit number of the entry handed to
     \* the backend last
     tags |-> [i \in 1..size |-> 0],
     ncommit |-> 0, called |-> <<>>, stored |-> <<>>, last_emitted |-> 0,
     \* the register arrays made so far: how often each one was freed
     heap |-> <<>>,
     \* qemu_log_printf_buf.valid_entries: the slots whose bit is set
     valid_entries |-> {}]

\* the CPU is switched on at creation whatever the global flags are
qemu_log_instr_init_always(size, flags, recent_pc, in_user) ==
    do_cpu_loglevel_switch(
        ZeroCpu(size), [next_level |-> "ALL", pc |-> 0, global |-> TRUE],
        recent_pc, in_user)

\* flags is qemu_loglevel when the CPU is created
qemu_log_instr_init(size, flags, recent_pc, in_user) ==
    LET s0 == ZeroCpu(size)
        level == IF qemu_loglevel_mask(flags, "INSTR_U") THEN "USER" ELSE "ALL"
        s1 == IF flags \cap {"INSTR", "INSTR_U"} # {}
              THEN do_cpu_loglevel_switch(
                       s0, [next_level |-> level, pc |-> 0, global |-> TRUE],
                       recent_pc, in_user)
              ELSE s0
    IN  [s1 EXCEPT !.entries_emitted = 0, !.trace_start = 0, !.trace_stop = 0,
                   !.backend = <<>>]

(* ------------------------------ history -------------------------------- *)
\* What the last operation did, for the checks that need to name it.
CommitOutcome(s) ==
    IF s.force_drop THEN "dropped"
    ELSE IF \E i \in 1..Len(s.filters) :
                ~trace_filters(s.filters[i], get_cpu_log_entry(s))
    THEN "filtered"
    ELSE IF s.buffered THEN "stored" ELSE "emitted"

SwitchOutcome(s, arg, in_user) ==
    LET next_active == NextLevelActive(s, arg, in_user)
    IN  IF arg.next_level = s.loglevel /\ next_active = s.loglevel_active
        THEN "noop"
        ELSE IF s.loglevel_active /\ s.starting THEN "discard"
        ELSE IF s.loglevel_active
             THEN (IF next_active THEN "stopstart" ELSE "stop")
             ELSE (IF next_active THEN "start" ELSE "level")

Last(op, outcome, m) == [op |-> op, outcome |-> outcome, m |-> m]

\* the number of REGDUMP events in the ring slots `slots`
DumpsIn(s, slots) ==
    Cardinality(UNION {DumpHolders(s, slots, gpr) : gpr \in 1..Len(s.heap)})

\* the CPU as an operation finds it: the backend has consumed the calls of
\* the operation before
env == [cpu EXCEPT !.backend = <<>>, !.called = <<>>]

\* Observer of the scenario "activate ALL, commit k instructions, switch to
\* NONE" on a streaming CPU without filters: stage 1 while the slice is
\* open, stage 2 right after the closing switch.  k counts the instruction
\* commits, n the emit_instr calls, first holds the first entry emitted.
S4Off == [stage |-> 0, k |-> 0, n |-> 0, first |-> <<>>, ts0 |-> 0, tp0 |-> 0]
\* Observer of the scenario "mode_switch(USER, pc) in kernel mode at level
\* USER": stage 1 after the call, 2 after its switch ran, 3 after the
\* commit that follows.
S7Off == [stage |-> 0, pc |-> 0]
\* Observer of the backend stream of a streaming CPU, kept where it is
\* switched on: fresh while nothing was emitted since tracing became
\* active, open while the last START or STOP emitted is a START, emitted
\* once the slice has emitted an entry; bad collects what the stream did
\* that a bracketed stream does not do.
StreamOff == [on |-> FALSE, fresh |-> FALSE, open |-> FALSE,
              emitted |-> FALSE, bad |-> {}]
ObsInit == [drop_since_commit |-> FALSE, s4 |-> S4Off, s7 |-> S7Off,
            stream |-> StreamOff]

\* the stream observer after the emit_instr calls `calls`, from the i-th on
RECURSIVE TrackCalls(_, _, _)
TrackCalls(st, calls, i) ==
    IF i > Len(calls) THEN st
    ELSE LET start == HasEvent(calls[i].entry, "START")
             stop == HasEvent(calls[i].entry, "STOP")
         IN  TrackCalls(
                 [st EXCEPT
                     !.bad = @ \cup (IF st.fresh /\ ~start
                                     THEN {"first_without_start"} ELSE {})
                               \cup (IF stop /\ ~(st.open \/ start)
                                     THEN {"stop_without_start"} ELSE {}),
                     !.fresh = FALSE,
                     !.emitted = TRUE,
                     !.open = IF stop THEN FALSE
                              ELSE IF start THEN TRUE ELSE @],
                 calls, i + 1)

\* the stream observer after an operation that found the CPU as `before`
\* and left it as `after`: the calls it made, then the slice it closed
\* (line 365 counts every stop) and the slice it opened (line 379)
TrackStream(st, before, after) ==
    LET a == TrackCalls(st, after.backend, 1)
        closes == /\ before.loglevel_active
                  /\ \/ ~after.loglevel_active
                     \/ after.trace_stop > before.trace_stop
        opens == /\ after.loglevel_active
                 /\ \/ ~before.loglevel_active
                    \/ after.trace_start > before.trace_start
        b == IF closes
             THEN [a EXCEPT
                      !.bad = @ \cup
                          (IF st.emitted
                              /\ \A i \in 1..Len(after.backend) :
                                     ~HasEvent(after.backend[i].entry, "STOP")
                           THEN {"stop_missing"} ELSE {}),
                      !.fresh = FALSE,
                      !.emitted = FALSE]
             ELSE a
    IN  IF opens THEN [b EXCEPT !.fresh = TRUE, !.emitted = FALSE] ELSE b

\* an operation that is not part of the scenarios
Disturb(o) == [o EXCEPT !.s4 = S4Off, !.s7 = S7Off]
\* an operation the scenarios allow between their steps
Neutral(o) ==
    [o EXCEPT !.s4 = IF @.stage = 2 THEN S4Off ELSE @,
              !.s7 = IF @.stage = 3 THEN S7Off ELSE @]

\* s4 after an operation of the open slice that left CPU state t
S4Count(o4, t, instr) ==
    [o4 EXCEPT !.k = IF instr THEN @ + 1 ELSE @,
               !.n = @ + Len(t.backend),
               !.first = IF @ = <<>> /\ t.backend # <<>>
                         THEN <<t.backend[1].entry>> ELSE @]

\* the operations `last` tells apart; every other one is recorded as a call
Tracked == {"commit", "flush", "switch", "resize", "printf_dump"}

Done(op, outcome, m, s, o) ==
    /\ cpu' = s
    /\ last' = IF op \in Tracked \/ outcome = "rejected"
               THEN Last(op, outcome, m)
               ELSE Last("call", "-", 0)
    /\ obs' = [drop_since_commit |-> o.drop_since_commit,
               s4 |-> o.s4, s7 |-> o.s7,
               stream |-> IF obs.stream.on
                          THEN TrackStream(obs.stream, cpu, s)
                          ELSE obs.stream]
    /\ machine' = machine

(* -------------------------------- Init --------------------------------- *)
\* -d instr / -d instr,instr-user given on the command line, or neither
StartupFlags == {{}, {"INSTR"}, {"INSTR", "INSTR_U"}}
\* -dfilter not given, or given with the one range [1, 1]
DebugRegionChoices == {NULL, <<[lob |-> 1, upb |-> 1]>>}
\* cpu_get_recent_pc when a callback runs
RecentPCs == {2}

\* The state after the command line was parsed and the CPU was created by
\* qemu_log_instr_init, for the given choices of the options.
\* watch: the observer of the backend stream is switched on
StartupWatch(flagset, regionset, sizes, watch) ==
    /\ qemu_loglevel \in flagset
    /\ cpu_mode = "SUPERVISOR"
    /\ debug_regions \in regionset
    /\ reset_entry_buffer_size \in sizes
    /\ \E recent_pc \in RecentPCs :
           cpu = qemu_log_instr_init(reset_entry_buffer_size, qemu_loglevel,
                                     recent_pc, cpu_mode = "USER")
    /\ work = <<>>
    /\ aborted = FALSE
    /\ last = Last("init", "-", 0)
    /\ obs = [ObsInit EXCEPT
                 !.stream = [StreamOff EXCEPT
                                !.on = watch,
                                !.fresh = watch /\ cpu.loglevel_active]]

StartupCpu(flagset, regionset, sizes) ==
    StartupWatch(flagset, regionset, sizes, FALSE)

\* the loop of qemu_log_instr_init over reset_filters, from the i-th on
RECURSIVE apply_reset_filters(_, _, _)
apply_reset_filters(s, reset_filters, i) ==
    IF i > Len(reset_filters) THEN s
    ELSE apply_reset_filters(qemu_log_instr_add_filter(s, reset_filters[i]),
                             reset_filters, i + 1)

\* a CPU of the machine as qemu_log_instr_init leaves it
NewCpu(size, reset_filters, recent_pc) ==
    [log_state |-> apply_reset_filters(
                       qemu_log_instr_init(size, qemu_loglevel, recent_pc,
                                           FALSE),
                       reset_filters, 1),
     work |-> <<>>,
     in_tb |-> FALSE]

\* qemu_log_instr_backend_t, in the order of the rows of trace_backends
BackendNames ==
    <<"TEXT", "CVTRACE", "NOP", "PERFETTO", "PROTOBUF", "JSON", "DRCACHESIM">>
\* the backends behind CONFIG_TRACE_PERFETTO, _PROTOBUF, _JSON, _DRCACHESIM
OptionalBackends == {"PERFETTO", "PROTOBUF", "JSON", "DRCACHESIM"}

\* a row of trace_backends: TRUE for a hook that is there, FALSE for NULL
Hooks(h_init, h_sync, h_emit_debug, h_emit_instr) ==
    [init |-> h_init, sync |-> h_sync, emit_debug |-> h_emit_debug,
     emit_instr |-> h_emit_instr]

\* trace_backends[backend] of a build with the optional backends
\* `compiled`; the row of a backend that is not compiled in is {0}
trace_backends(compiled, backend) ==
    IF backend \in OptionalBackends \ compiled
    THEN Hooks(FALSE, FALSE, FALSE, FALSE)
    ELSE CASE backend = "TEXT" -> Hooks(FALSE, FALSE, FALSE, TRUE)
           [] backend = "CVTRACE" -> Hooks(TRUE, FALSE, FALSE, TRUE)
           [] backend = "NOP" -> Hooks(FALSE, FALSE, FALSE, TRUE)
           [] backend = "PERFETTO" -> Hooks(TRUE, TRUE, TRUE, TRUE)
           [] backend = "PROTOBUF" -> Hooks(TRUE, TRUE, FALSE, TRUE)
           [] backend = "JSON" -> Hooks(TRUE, TRUE, FALSE, TRUE)
           [] backend = "DRCACHESIM" -> Hooks(TRUE, FALSE, FALSE, TRUE)

\* the backend of the process: the build, qemu_log_instr_backend, the
\* pointer trace_backend (<<>>: NULL) and, as history, the hooks the last
\* operation called through it
Backend(compiled, selected) ==
    [compiled |-> compiled, qemu_log_instr_backend |-> selected,
     trace_backend |-> <<>>, called |-> <<>>]

\* what the last call on a translation context did: the call, its strings,
\* the slot it reserved (of a flush: the counter it found), how it ended
\* and whether it emitted the call of the render helper
GenCall(fn, qemu_format, fmt, ndx, outcome, emitted) ==
    [fn |-> fn, qemu_format |-> qemu_format, fmt |-> fmt, ndx |-> ndx,
     outcome |-> outcome, emitted |-> emitted]

\* DisasContextBase: whether the block is translated with logging on,
\* printf_used_ptr and, as history, the last call and whether every
\* qemu_log_gen_printf so far was followed by a qemu_log_gen_printf_flush
\* (pending: the last one still waits for its flush)
DisasContextBase(logging) ==
    [logging |-> logging, printf_used_ptr |-> 0,
     call |-> GenCall("-", <<>>, <<>>, 0, "-", FALSE),
     pending |-> FALSE, flushed_each |-> TRUE]

\* history of the machine: the last call made on it with its numbers and
\* names, the thread that made it (0: the main thread, i: the thread of
\* the i-th CPU) and the CPUs whose log state the call read or wrote from
\* that thread
Note(op, arg, names, caller, touched) ==
    [op |-> op, arg |-> arg, names |-> names, caller |-> caller,
     touched |-> touched]

\* the machine with `count` CPUs and no startup filters
Machine(count, recent_pc) ==
    [cpus |-> [i \in 1..count |->
                  NewCpu(MIN_ENTRY_BUFFER_SIZE, <<>>, recent_pc)],
     ret |-> <<>>,
     reset_filters |-> <<>>,
     errp |-> <<>>,
     note |-> Note("-", <<>>, <<>>, 0, {}),
     backend |-> Backend({}, "TEXT"),
     base |-> DisasContextBase(FALSE)]

Startup(flagset, regionset, sizes) ==
    /\ StartupCpu(flagset, regionset, sizes)
    /\ machine = Machine(0, 0)

Init == Startup(StartupFlags, {NULL}, {MIN_ENTRY_BUFFER_SIZE})

(* ----------------------------- collectors ------------------------------ *)
\* qemu_log_instr (instruction bytes and physical address are not modelled)
Instr(pc) ==
    /\ ~aborted
    /\ LET e == get_cpu_log_entry(cpu)
       IN  Done("instr", "-", 0,
                SetEntry(env, [e EXCEPT !.pc = pc,
                                        !.flags = @ \cup {"HAS_INSTR_DATA"}]),
                Neutral(obs))
    /\ UNCHANGED <<qemu_loglevel, work, cpu_mode, debug_regions,
                   reset_entry_buffer_size, aborted>>

\* helper_qemu_log_instr_reg
Reg ==
    /\ ~aborted
    /\ Len(get_cpu_log_entry(cpu).regs) < MaxRecords
    /\ LET e == get_cpu_log_entry(cpu)
       IN  Done("reg", "-", 0,
                IF qemu_log_instr_check_enabled(cpu)
                THEN SetEntry(env, [e EXCEPT !.regs =
                         Append(@, [flags |-> {}, name |-> "r", gpr |-> 1])])
                ELSE env,
                Neutral(obs))
    /\ UNCHANGED <<qemu_loglevel, work, cpu_mode, debug_regions,
                   reset_entry_buffer_size, aborted>>

\* helper_qemu_log_instr_load64
Load(addr) ==
    /\ ~aborted
    /\ Len(get_cpu_log_entry(cpu).mem) < MaxRecords
    /\ LET e == get_cpu_log_entry(cpu)
       IN  Done("load", "-", 0,
                IF qemu_log_instr_check_enabled(cpu)
                THEN SetEntry(env, [e EXCEPT !.mem =
                         Append(@, [flags |-> {"LD"}, addr |-> addr])])
                ELSE env,
                Neutral(obs))
    /\ UNCHANGED <<qemu_loglevel, work, cpu_mode, debug_regions,
                   reset_entry_buffer_size, aborted>>

\* qemu_log_instr_event with a target-defined event
Event ==
    /\ ~aborted
    /\ Len(get_cpu_log_entry(cpu).events) < MaxRecords
    /\ LET e == get_cpu_log_entry(cpu)
       IN  Done("event", "-", 0,
                SetEntry(env, [e EXCEPT !.events = Append(@, UserEvent)]),
                Neutral(obs))
    /\ UNCHANGED <<qemu_loglevel, work, cpu_mode, debug_regions,
                   reset_entry_buffer_size, aborted>>

\* qemu_log_instr_extra
Extra ==
    /\ ~aborted
    /\ Len(get_cpu_log_entry(cpu).txt_buffer) < MaxRecords
    /\ LET e == get_cpu_log_entry(cpu)
       IN  Done("extra", "-", 0,
                SetEntry(env, [e EXCEPT !.txt_buffer = Append(@, "t")]),
                Neutral(obs))
    /\ UNCHANGED <<qemu_loglevel, work, cpu_mode, debug_regions,
                   reset_entry_buffer_size, aborted>>

(* ----------------------------- controller ------------------------------ *)
SwitchArg(level, pc, global) ==
    [fn |-> IF global THEN "do_global_loglevel_switch"
            ELSE "do_cpu_loglevel_switch",
     next_level |-> level, pc |-> pc, global |-> global, new_size |-> 0]

ResizeArg(n) ==
    [fn |-> "do_log_buffer_resize",
     next_level |-> "NONE", pc |-> 0, global |-> FALSE, new_size |-> n]

\* async_safe_run_on_cpu, within the bounds of the model
CanSchedule == Len(work) < MaxPending /\ cpu.trace_start < MaxSlices

\* the switch is scheduled on the way into user mode only
ModeSwitch_enteronly(mode, pc) ==
    LET e == get_cpu_log_entry(cpu)
        switch == /\ qemu_loglevel_mask(qemu_loglevel, "INSTR")
                  /\ cpu.loglevel = "USER"
                  /\ mode = "USER" /\ ~cpu.loglevel_active
    IN  /\ ~aborted
        /\ switch => CanSchedule
        /\ Done("mode_switch", IF switch THEN "scheduled" ELSE "-", 0,
                SetEntry(env, [e EXCEPT !.flags = @ \cup {"MODE_SWITCH"},
                                        !.next_cpu_mode = mode]),
                Disturb(obs))
        /\ cpu_mode' = mode
        /\ work' = IF switch
                   THEN Append(work, SwitchArg(cpu.loglevel, pc, FALSE))
                   ELSE work
        /\ UNCHANGED <<qemu_loglevel, debug_regions,
                       reset_entry_buffer_size, aborted>>

\* the switch is scheduled at level USER whatever the activity
ModeSwitch_always(mode, pc) ==
    LET e == get_cpu_log_entry(cpu)
        switch == /\ qemu_loglevel_mask(qemu_loglevel, "INSTR")
                  /\ cpu.loglevel = "USER"
    IN  /\ ~aborted
        /\ switch => CanSchedule
        /\ Done("mode_switch", IF switch THEN "scheduled" ELSE "-", 0,
                SetEntry(env, [e EXCEPT !.flags = @ \cup {"MODE_SWITCH"},
                                        !.next_cpu_mode = mode]),
                Disturb(obs))
        /\ cpu_mode' = mode
        /\ work' = IF switch
                   THEN Append(work, SwitchArg(cpu.loglevel, pc, FALSE))
                   ELSE work
        /\ UNCHANGED <<qemu_loglevel, debug_regions,
                       reset_entry_buffer_size, aborted>>

\* qemu_log_instr_mode_switch; the target enters `mode` with this call
ModeSwitch(mode, pc) ==
    LET e == get_cpu_log_entry(cpu)
        switch == /\ qemu_loglevel_mask(qemu_loglevel, "INSTR")
                  /\ cpu.loglevel = "USER"
                  /\ (mode = "USER") # cpu.loglevel_active
        scenario == /\ switch /\ mode = "USER" /\ cpu_mode # "USER"
                    /\ ~cpu.buffered /\ cpu.filters = <<>>
                    /\ ~cpu.force_drop /\ work = <<>>
    IN  /\ ~aborted
        /\ switch => CanSchedule
        /\ Done("mode_switch", IF switch THEN "scheduled" ELSE "-", 0,
                SetEntry(env, [e EXCEPT !.flags = @ \cup {"MODE_SWITCH"},
                                        !.next_cpu_mode = mode]),
                IF scenario
                THEN [Disturb(obs) EXCEPT !.s7 =
                         [stage |-> 1, pc |-> pc]]
                ELSE Disturb(obs))
        /\ cpu_mode' = mode
        /\ work' = IF switch
                   THEN Append(work, SwitchArg(cpu.loglevel, pc, FALSE))
                   ELSE work
        /\ UNCHANGED <<qemu_loglevel, debug_regions,
                       reset_entry_buffer_size, aborted>>

\* qemu_log_instr_drop
Drop ==
    /\ ~aborted
    /\ Done("drop", "-", 0, [env EXCEPT !.force_drop = TRUE],
            [Disturb(obs) EXCEPT !.drop_since_commit = TRUE])
    /\ UNCHANGED <<qemu_loglevel, work, cpu_mode, debug_regions,
                   reset_entry_buffer_size, aborted>>

\* qemu_log_instr_commit
Commit ==
    /\ ~aborted
    /\ cpu.ncommit < MaxCommits
    /\ Done("commit", CommitOutcome(cpu), 0, qemu_log_instr_commit(env),
            [drop_since_commit |-> FALSE,
             s4 |-> IF obs.s4.stage = 1
                       /\ "HAS_INSTR_DATA" \in get_cpu_log_entry(cpu).flags
                    THEN S4Count(obs.s4, qemu_log_instr_commit(env), TRUE)
                    ELSE S4Off,
             s7 |-> IF obs.s7.stage = 2
                    THEN [obs.s7 EXCEPT !.stage = 3]
                    ELSE S7Off])
    /\ UNCHANGED <<qemu_loglevel, work, cpu_mode, debug_regions,
                   reset_entry_buffer_size, aborted>>

\* qemu_log_instr_flush
Flush ==
    /\ ~aborted
    /\ qemu_log_instr_check_enabled(cpu) \/ cpu.ncommit < MaxCommits
    /\ NumFlush(get_cpu_log_entry(cpu)) < MaxFlushes
    /\ Done("flush",
            IF qemu_log_instr_check_enabled(cpu) THEN "enabled" ELSE "forced",
            Len(cpu.stored), qemu_log_instr_flush(env),
            [Disturb(obs) EXCEPT !.drop_since_commit =
                 IF qemu_log_instr_check_enabled(cpu) THEN @ ELSE FALSE])
    /\ UNCHANGED <<qemu_loglevel, work, cpu_mode, debug_regions,
                   reset_entry_buffer_size, aborted>>

\* helper_qemu_log_instr_buffered_mode
BufferedMode(enable) ==
    /\ ~aborted
    /\ Done("buffered_mode", "-", 0, [env EXCEPT !.buffered = enable],
            Disturb(obs))
    /\ UNCHANGED <<qemu_loglevel, work, cpu_mode, debug_regions,
                   reset_entry_buffer_size, aborted>>

\* qemu_log_instr_global_switch (one CPU exists)
GlobalSwitch(log_flags) ==
    LET level == IF "INSTR_U" \in log_flags THEN "USER"
                 ELSE IF "INSTR" \in log_flags THEN "ALL"
                 ELSE "NONE"
    IN  /\ ~aborted
        /\ CanSchedule
        /\ Done("global_switch", "scheduled", 0, env, Neutral(obs))
        /\ work' = Append(work, SwitchArg(level, 0, TRUE))
        /\ UNCHANGED <<qemu_loglevel, cpu_mode, debug_regions,
                       reset_entry_buffer_size, aborted>>

\* helper_qemu_log_instr_start / helper_qemu_log_instr_user_start
InstrStart(level, pc) ==
    LET bail == cpu.loglevel = level /\ cpu.loglevel_active
    IN  /\ ~aborted
        /\ ~bail => CanSchedule
        /\ Done("instr_start", IF bail THEN "-" ELSE "scheduled", 0, env,
                Neutral(obs))
        /\ qemu_loglevel' = qemu_loglevel \cup {"INSTR"}
        /\ work' = IF bail THEN work
                   ELSE Append(work, SwitchArg(level, pc, FALSE))
        /\ UNCHANGED <<cpu_mode, debug_regions,
                       reset_entry_buffer_size, aborted>>

\* helper_qemu_log_instr_stop
InstrStop(pc) ==
    /\ ~aborted
    /\ CanSchedule
    /\ Done("instr_stop", "scheduled", 0, env, Neutral(obs))
    /\ work' = Append(work, SwitchArg("NONE", pc, FALSE))
    /\ UNCHANGED <<qemu_loglevel, cpu_mode, debug_regions,
                   reset_entry_buffer_size, aborted>>

\* qemu_log_instr_set_buffer_size
SetBufferSize(new_size) ==
    LET accept == new_size >= MIN_ENTRY_BUFFER_SIZE
    IN  /\ ~aborted
        /\ accept => Len(work) < MaxPending
        /\ Done("set_buffer_size",
                IF accept THEN "scheduled" ELSE "rejected", 0,
                env, Neutral(obs))
        /\ reset_entry_buffer_size' =
               IF accept THEN new_size ELSE reset_entry_buffer_size
        /\ work' = IF accept THEN Append(work, ResizeArg(new_size)) ELSE work
        /\ UNCHANGED <<qemu_loglevel, cpu_mode, debug_regions, aborted>>

\* qemu_log_instr_add_filter
AddFilter(filter) ==
    /\ ~aborted
    /\ Done("add_filter",
            IF filter >= LOG_INSTR_FILTER_MAX THEN "rejected" ELSE "-", 0,
            qemu_log_instr_add_filter(env, filter), Disturb(obs))
    /\ UNCHANGED <<qemu_loglevel, work, cpu_mode, debug_regions,
                   reset_entry_buffer_size, aborted>>

\* qemu_log_instr_remove_filter
RemoveFilter(filter) ==
    /\ ~aborted
    /\ Done("remove_filter",
            IF filter >= LOG_INSTR_FILTER_MAX THEN "rejected" ELSE "-", 0,
            qemu_log_instr_remove_filter(env, filter), Disturb(obs))
    /\ UNCHANGED <<qemu_loglevel, work, cpu_mode, debug_regions,
                   reset_entry_buffer_size, aborted>>

(* -------------------- the global switch on every CPU ------------------- *)
\* the flag words given to qemu_log_instr_global_switch; EXEC stands for
\* the bits of the word that do not concern the instruction log
FlagWords == SUBSET {"INSTR", "INSTR_U", "EXEC"}

global_loglevel_enable(flags) ==
    IF ~qemu_loglevel_mask(flags, "INSTR") THEN flags \cup {"INSTR"}
    ELSE flags

\* arg->next_level for a flag word
NextLevel(log_flags) ==
    IF "INSTR_U" \in log_flags THEN "USER"
    ELSE IF "INSTR" \in log_flags THEN "ALL"
    ELSE "NONE"

\* the body of CPU_FOREACH in qemu_log_instr_global_switch, from the i-th
\* CPU on: the CPUs with their new callbacks, and log_flags after the loop
RECURSIVE global_switch_loop(_, _, _)
global_switch_loop(cpus, log_flags, i) ==
    IF i > Len(cpus) THEN [cpus |-> cpus, log_flags |-> log_flags]
    ELSE global_switch_loop(
             [cpus EXCEPT ![i].work =
                 Append(@, SwitchArg(NextLevel(log_flags), 0, TRUE))],
             IF "INSTR_U" \in log_flags THEN log_flags \cup {"INSTR"}
             ELSE log_flags,
             i + 1)

\* the switch is applied to every CPU at once instead of being scheduled
qemu_log_instr_global_switch_sync(m, log_flags) ==
    [m EXCEPT
        !.cpus = [i \in 1..Len(m.cpus) |->
                     [m.cpus[i] EXCEPT !.log_state =
                         do_cpu_loglevel_switch(
                             @, SwitchArg(NextLevel(log_flags), 0, TRUE),
                             0, FALSE)]],
        !.ret = <<global_switch_loop(m.cpus, log_flags, 1).log_flags>>]

qemu_log_instr_global_switch(m, log_flags) ==
    LET r == global_switch_loop(m.cpus, log_flags, 1)
    IN  [m EXCEPT !.cpus = r.cpus, !.ret = <<r.log_flags>>]

\* a step of the machine's CPUs; the CPU whose trace is followed is left
\* alone
MachineStep(m) ==
    /\ machine' = m
    /\ UNCHANGED <<cpu, work, cpu_mode, debug_regions,
                   reset_entry_buffer_size, last, obs>>

\* qemu_log_instr_global_switch, called by the monitor
GlobalSwitchAll(log_flags) ==
    /\ ~aborted
    /\ \A i \in 1..Len(machine.cpus) :
           /\ Len(machine.cpus[i].work) < MaxPending
           /\ machine.cpus[i].log_state.trace_start < MaxSlices
    /\ MachineStep(qemu_log_instr_global_switch(machine, log_flags))
    /\ UNCHANGED <<qemu_loglevel, aborted>>

\* The i-th CPU enters a translation block.  A CPU with a callback queued
\* by async_safe_run_on_cpu runs it before it executes translated code
\* again.
ExecTb(i) ==
    /\ ~aborted
    /\ ~machine.cpus[i].in_tb
    /\ machine.cpus[i].work = <<>>
    /\ MachineStep([machine EXCEPT !.cpus[i].in_tb = TRUE])
    /\ UNCHANGED <<qemu_loglevel, aborted>>

\* helper_qemu_log_instr_commit, called from the translation block
TbCommit(i) ==
    /\ ~aborted
    /\ machine.cpus[i].in_tb
    /\ machine.cpus[i].log_state.ncommit < MaxTbCommits
    /\ MachineStep([machine EXCEPT !.cpus[i].log_state =
                        qemu_log_instr_commit(
                            [@ EXCEPT !.backend = <<>>, !.called = <<>>])])
    /\ UNCHANGED <<qemu_loglevel, aborted>>

\* the i-th CPU leaves its translation block
ExitTb(i) ==
    /\ ~aborted
    /\ machine.cpus[i].in_tb
    /\ MachineStep([machine EXCEPT !.cpus[i].in_tb = FALSE])
    /\ UNCHANGED <<qemu_loglevel, aborted>>

\* do_global_loglevel_switch on the i-th CPU, in exclusive context: the CPU
\* is outside its translation block.  A failed log_assert ends the run.
RunGlobalOn(i) ==
    /\ ~aborted
    /\ ~machine.cpus[i].in_tb
    /\ machine.cpus[i].work # <<>>
    /\ LET arg == Head(machine.cpus[i].work)
           flags == IF arg.next_level # "NONE"
                    THEN global_loglevel_enable(qemu_loglevel)
                    ELSE qemu_loglevel
       IN  /\ qemu_loglevel' = flags
           /\ aborted' = ~qemu_loglevel_mask(flags, "INSTR")
           /\ \E recent_pc \in RecentPCs, in_user \in BOOLEAN :
                  MachineStep(
                      [machine EXCEPT
                          !.cpus[i].work = Tail(@),
                          !.cpus[i].log_state =
                              IF ~qemu_loglevel_mask(flags, "INSTR") THEN @
                              ELSE do_cpu_loglevel_switch(
                                       [@ EXCEPT !.backend = <<>>,
                                                 !.called = <<>>],
                                       arg, recent_pc, in_user)])

(* ------------------------- the all-CPU helpers ------------------------- *)
\* cpu_loglevel_switch: do_cpu_loglevel_switch is queued on the CPU c
cpu_loglevel_switch(c, pc, level, global) ==
    [c EXCEPT !.work =
        Append(@, [SwitchArg(level, pc, global)
                      EXCEPT !.fn = "do_cpu_loglevel_switch"])]

\* do_qemu_log_instr_start after global_loglevel_enable(): the level of
\* the CPU c is read by the thread that makes the call
do_qemu_log_instr_start(c, pc, level, global) ==
    IF c.log_state.loglevel = level /\ c.log_state.loglevel_active THEN c
    ELSE cpu_loglevel_switch(c, pc, level, global)

do_qemu_log_instr_stop(c, pc, global) ==
    cpu_loglevel_switch(c, pc, "NONE", global)

\* helper_qemu_log_instr_allcpu_start, helper_qemu_log_instr_allcpu_user_start
\* (level ALL, USER): CPU_FOREACH on the calling thread
helper_qemu_log_instr_allcpu_start(m, level) ==
    [m EXCEPT !.cpus = [i \in 1..Len(m.cpus) |->
                           do_qemu_log_instr_start(m.cpus[i], 0, level,
                                                   TRUE)]]

helper_qemu_log_instr_allcpu_stop(m) ==
    [m EXCEPT !.cpus = [i \in 1..Len(m.cpus) |->
                           do_qemu_log_instr_stop(m.cpus[i], 0, TRUE)]]

\* async_safe_run_on_cpu for every CPU, within the bounds of the model
CanScheduleAll ==
    \A i \in 1..Len(machine.cpus) :
        /\ Len(machine.cpus[i].work) < MaxPending
        /\ machine.cpus[i].log_state.trace_start < MaxSlices

\* the guest runs the start-on-all-CPUs instruction on the CPU `caller`
AllcpuStart(caller, level) ==
    /\ ~aborted
    /\ CanScheduleAll
    /\ qemu_loglevel' = global_loglevel_enable(qemu_loglevel)
    /\ MachineStep([helper_qemu_log_instr_allcpu_start(machine, level)
                       EXCEPT !.note = Note("allcpu_start", <<>>, <<level>>,
                                            caller, 1..Len(machine.cpus))])
    /\ UNCHANGED aborted

\* the guest runs the stop-on-all-CPUs instruction on the CPU `caller`
AllcpuStop(caller) ==
    /\ ~aborted
    /\ CanScheduleAll
    /\ MachineStep([helper_qemu_log_instr_allcpu_stop(machine)
                       EXCEPT !.note = Note("allcpu_stop", <<>>, <<>>,
                                            caller, {})])
    /\ UNCHANGED <<qemu_loglevel, aborted>>

\* do_cpu_loglevel_switch on the i-th CPU, in exclusive context.  A failed
\* log_assert ends the run.
RunCpuSwitchOn(i) ==
    /\ ~aborted
    /\ machine.cpus[i].work # <<>>
    /\ Head(machine.cpus[i].work).fn = "do_cpu_loglevel_switch"
    /\ aborted' = ~qemu_loglevel_mask(qemu_loglevel, "INSTR")
    /\ \E recent_pc \in RecentPCs, in_user \in BOOLEAN :
           MachineStep(
               [machine EXCEPT
                   !.cpus[i].work = Tail(@),
                   !.cpus[i].log_state =
                       IF ~qemu_loglevel_mask(qemu_loglevel, "INSTR") THEN @
                       ELSE do_cpu_loglevel_switch(
                                [@ EXCEPT !.backend = <<>>, !.called = <<>>],
                                Head(machine.cpus[i].work), recent_pc,
                                in_user),
                   !.note = Note("cpu_switch", <<>>, <<>>, i, {i})])
    /\ UNCHANGED qemu_loglevel

(* ----------------------------- staged printf --------------------------- *)
\* Widths are scaled down, 3 bits standing for 32: int has INT_WIDTH bits,
\* the highest one its sign; the uint64_t bitmap has twice as many; the
\* staging area has as many slots as int has bits.
INT_WIDTH == 3
UINT64_WIDTH == 2 * INT_WIDTH
QEMU_LOG_PRINTF_BUF_DEPTH == INT_WIDTH

\* what a shift by the width of int or more gives: the count modulo the
\* width, or zero
ShiftOutcomes == {"modulo", "zero"}

\* the bits of (uint64_t)(1 << ndx), 1 being an int: the mask of the sign
\* bit is sign-extended by the conversion
RECURSIVE IntShiftMask(_, _)
IntShiftMask(ndx, ub) ==
    IF ndx < INT_WIDTH - 1 THEN {ndx}
    ELSE IF ndx = INT_WIDTH - 1 THEN (INT_WIDTH - 1)..(UINT64_WIDTH - 1)
    ELSE IF ub = "modulo" THEN IntShiftMask(ndx % INT_WIDTH, ub)
    ELSE {}

ctz64(valid) == CHOOSE ndx \in valid : \A k \in valid : ndx <= k

\* the loop of helper_qemu_log_printf_dump: the slots rendered, in order,
\* and whether the loop came to its end within `fuel` steps
RECURSIVE printf_dump_loop(_, _, _, _)
printf_dump_loop(valid, txt, fuel, ub) ==
    IF valid = {} THEN [txt |-> txt, ended |-> TRUE]
    ELSE IF fuel = 0 THEN [txt |-> txt, ended |-> FALSE]
    ELSE LET ndx == ctz64(valid)
             mask == IntShiftMask(ndx, ub)
         IN  printf_dump_loop((valid \ mask) \cup (mask \ valid),
                              Append(txt, ndx), fuel - 1, ub)

helper_qemu_log_printf_dump(s, ub) ==
    LET valid == s.valid_entries
        cleared == [s EXCEPT !.valid_entries = {}]
        entry == get_cpu_log_entry(s)
    IN  IF ~qemu_log_instr_check_enabled(s) THEN cleared
        ELSE SetEntry(cleared,
                      [entry EXCEPT !.txt_buffer =
                          printf_dump_loop(valid, @, MaxRenders, ub).txt])

\* the code qemu_log_gen_printf generated for slot ndx runs: it marks the
\* slot as valid with 1ULL << ndx
GenPrintf(ndx) ==
    /\ ~aborted
    /\ Done("gen_printf", "-", 0,
            [env EXCEPT !.valid_entries = @ \cup {ndx}], Neutral(obs))
    /\ UNCHANGED <<qemu_loglevel, work, cpu_mode, debug_regions,
                   reset_entry_buffer_size, aborted>>

\* helper_qemu_log_printf_dump.  A loop that does not come to its end
\* never returns: the run is not followed further.
PrintfDump ==
    /\ ~aborted
    /\ Len(get_cpu_log_entry(cpu).txt_buffer) < MaxText
    /\ \E ub \in ShiftOutcomes :
           LET ended == \/ ~qemu_log_instr_check_enabled(cpu)
                        \/ printf_dump_loop(cpu.valid_entries, <<>>,
                                            MaxRenders, ub).ended
           IN  /\ Done("printf_dump", IF ended THEN "-" ELSE "hung",
                       Cardinality(cpu.valid_entries),
                       helper_qemu_log_printf_dump(env, ub), Neutral(obs))
               /\ aborted' = ~ended
    /\ UNCHANGED <<qemu_loglevel, work, cpu_mode, debug_regions,
                   reset_entry_buffer_size>>

(* --------------------- startup filters and CPU creation ---------------- *)
\* the names of a filter specification: "events" is the one the code
\* accepts
FilterNames == {"events", "regions"}
FilterSpecs == UNION {[1..n -> FilterNames] : n \in 0..MaxNames}

qemu_log_instr_allcpu_add_filter(m, filter) ==
    [m EXCEPT !.cpus = [i \in 1..Len(m.cpus) |->
                           [m.cpus[i] EXCEPT !.log_state =
                               qemu_log_instr_add_filter(@, filter)]]]

qemu_log_instr_allcpu_remove_filter(m, filter) ==
    [m EXCEPT !.cpus = [i \in 1..Len(m.cpus) |->
                           [m.cpus[i] EXCEPT !.log_state =
                               qemu_log_instr_remove_filter(@, filter)]]]

\* every startup filter goes to the reset list, CPUs or not
qemu_log_instr_add_startup_filter_stash(m, filter) ==
    [m EXCEPT !.reset_filters = Append(@, filter)]

\* first_cpu == NULL: the CPU list is empty
qemu_log_instr_add_startup_filter(m, filter) ==
    IF m.cpus = <<>> THEN [m EXCEPT !.reset_filters = Append(@, filter)]
    ELSE qemu_log_instr_allcpu_add_filter(m, filter)

\* every name is looked at before a filter is added: one unknown name
\* and nothing is installed
cli_filters_loop_validate(m, names, i) ==
    IF \E j \in i..Len(names) : names[j] # "events"
    THEN [m EXCEPT !.errp = <<"Invalid trace filter name">>]
    ELSE [m EXCEPT !.reset_filters =
                       IF m.cpus = <<>>
                       THEN @ \o [j \in i..Len(names) |-> LOG_FILTER_EVENTS]
                       ELSE @,
                   !.cpus = IF i <= Len(names)
                            THEN qemu_log_instr_allcpu_add_filter(
                                     m, LOG_FILTER_EVENTS).cpus
                            ELSE @]

\* the loop of qemu_log_instr_set_cli_filters, from the i-th name on
RECURSIVE cli_filters_loop(_, _, _)
cli_filters_loop(m, names, i) ==
    IF i > Len(names) THEN m
    ELSE IF names[i] = "events"
    THEN cli_filters_loop(
             qemu_log_instr_add_startup_filter(m, LOG_FILTER_EVENTS),
             names, i + 1)
    ELSE [m EXCEPT !.errp = <<"Invalid trace filter name">>]

\* names is g_strsplit(filter_spec, ","); errp comes in without an error
qemu_log_instr_set_cli_filters(m, names) ==
    cli_filters_loop([m EXCEPT !.errp = <<>>], names, 1)

\* qemu_log_instr_add_startup_filter, called on the main thread
AddStartupFilter(filter) ==
    /\ ~aborted
    /\ Len(machine.reset_filters) < MaxStartup
    /\ MachineStep([qemu_log_instr_add_startup_filter(machine, filter)
                       EXCEPT !.note = Note("add_startup_filter", <<filter>>,
                                            <<>>, 0, 1..Len(machine.cpus))])
    /\ UNCHANGED <<qemu_loglevel, aborted>>

\* qemu_log_instr_set_cli_filters, called on the main thread
SetCliFilters(names) ==
    /\ ~aborted
    /\ Len(machine.reset_filters) + Len(names) <= MaxStartup
    /\ MachineStep([qemu_log_instr_set_cli_filters(machine, names)
                       EXCEPT !.note = Note("set_cli_filters", <<>>, names, 0,
                                            IF \E i \in 1..Len(names) :
                                                   names[i] = "events"
                                            THEN 1..Len(machine.cpus)
                                            ELSE {})])
    /\ UNCHANGED <<qemu_loglevel, aborted>>

\* qemu_log_instr_init for one more CPU
CpuCreate ==
    /\ ~aborted
    /\ Len(machine.cpus) < MaxCpus
    /\ \E recent_pc \in RecentPCs :
           MachineStep([machine EXCEPT
               !.cpus = Append(@, NewCpu(reset_entry_buffer_size,
                                         machine.reset_filters, recent_pc)),
               !.note = Note("cpu_create", <<>>, <<>>, Len(machine.cpus) + 1,
                             {Len(machine.cpus) + 1})])
    /\ UNCHANGED <<qemu_loglevel, aborted>>

\* qemu_log_instr_add_filter on the i-th CPU, from its own thread
AddFilterOn(i, filter) ==
    /\ ~aborted
    /\ MachineStep([machine EXCEPT
           !.cpus[i].log_state = qemu_log_instr_add_filter(@, filter),
           !.note = Note("add_filter", <<filter>>, <<>>, i, {i})])
    /\ UNCHANGED <<qemu_loglevel, aborted>>

\* qemu_log_instr_remove_filter on the i-th CPU, from its own thread
RemoveFilterOn(i, filter) ==
    /\ ~aborted
    /\ MachineStep([machine EXCEPT
           !.cpus[i].log_state = qemu_log_instr_remove_filter(@, filter),
           !.note = Note("remove_filter",
                         <<filter,
                           IF InSeq(machine.cpus[i].log_state.filters, filter)
                           THEN FirstIndex(machine.cpus[i].log_state.filters,
                                           filter)
                           ELSE 0>>,
                         <<>>, i, {i})])
    /\ UNCHANGED <<qemu_loglevel, aborted>>

\* qemu_log_instr_allcpu_add_filter, called on the thread `caller`
AllcpuAddFilter(caller, filter) ==
    /\ ~aborted
    /\ MachineStep([qemu_log_instr_allcpu_add_filter(machine, filter)
                       EXCEPT !.note = Note("allcpu_add_filter", <<filter>>,
                                            <<>>, caller,
                                            1..Len(machine.cpus))])
    /\ UNCHANGED <<qemu_loglevel, aborted>>

\* qemu_log_instr_allcpu_remove_filter, called on the thread `caller`
AllcpuRemoveFilter(caller, filter) ==
    /\ ~aborted
    /\ MachineStep([qemu_log_instr_allcpu_remove_filter(machine, filter)
                       EXCEPT !.note = Note("allcpu_remove_filter",
                                            <<filter>>, <<>>, caller,
                                            1..Len(machine.cpus))])
    /\ UNCHANGED <<qemu_loglevel, aborted>>

(* ---------------------------- backend hooks ---------------------------- *)
\* the hook `hook` is called through trace_backend without a test
CallHook(b, hook) ==
    [b EXCEPT !.called = Append(@, [hook |-> hook,
                                    there |-> b.trace_backend[1][hook]])]

\* the hook is called if it is there
CallHookIfThere(b, hook) ==
    IF b.trace_backend[1][hook] THEN CallHook(b, hook) ELSE b

\* one emit_instr call for each of the n entries handed to the backend
RECURSIVE EmitCalls(_, _)
EmitCalls(b, n) ==
    IF n = 0 THEN b ELSE EmitCalls(CallHook(b, "emit_instr"), n - 1)

\* a call through a NULL hook ends the run
MissingHookCalled(b) ==
    \E i \in 1..Len(b.called) : ~b.called[i].there

\* the backend part of qemu_log_instr_init: trace_backend is set by the
\* first CPU, then the init hook
backend_init(b) ==
    LET b1 == [b EXCEPT !.called = <<>>,
                        !.trace_backend =
                            IF @ = <<>>
                            THEN <<trace_backends(b.compiled,
                                                  b.qemu_log_instr_backend)>>
                            ELSE @]
    IN  CallHookIfThere(b1, "init")

\* qemu_log_instr_init for one more CPU, with the backend
BackendCpuCreate ==
    /\ ~aborted
    /\ Len(machine.cpus) < MaxCpus
    /\ \E recent_pc \in RecentPCs :
           MachineStep([machine EXCEPT
               !.cpus = Append(@, NewCpu(reset_entry_buffer_size,
                                         machine.reset_filters, recent_pc)),
               !.backend = backend_init(@)])
    /\ UNCHANGED <<qemu_loglevel, aborted>>

\* an operation on the i-th CPU that leaves it as t: every entry it hands
\* to the backend goes through the emit_instr hook
BackendStep(i, t) ==
    LET b == EmitCalls([machine.backend EXCEPT !.called = <<>>],
                       Len(t.backend))
    IN  /\ MachineStep([machine EXCEPT !.cpus[i].log_state = t,
                                       !.backend = b])
        /\ aborted' = MissingHookCalled(b)
        /\ UNCHANGED qemu_loglevel

\* helper_qemu_log_instr_commit on the i-th CPU
BackendCommit(i) ==
    /\ ~aborted
    /\ machine.cpus[i].log_state.ncommit < MaxTbCommits
    /\ BackendStep(i, qemu_log_instr_commit(
                          [machine.cpus[i].log_state
                              EXCEPT !.backend = <<>>, !.called = <<>>]))

\* qemu_log_instr_drop on the i-th CPU
BackendDrop(i) ==
    /\ ~aborted
    /\ BackendStep(i, [machine.cpus[i].log_state
                          EXCEPT !.backend = <<>>, !.called = <<>>,
                                 !.force_drop = TRUE])

\* helper_qemu_log_instr_buffered_mode on the i-th CPU
BackendBufferedMode(i, enable) ==
    /\ ~aborted
    /\ BackendStep(i, [machine.cpus[i].log_state
                          EXCEPT !.backend = <<>>, !.called = <<>>,
                                 !.buffered = enable])

\* qemu_log_instr_flush on the i-th CPU
BackendFlush(i) ==
    /\ ~aborted
    /\ NumFlush(get_cpu_log_entry(machine.cpus[i].log_state)) < MaxFlushes
    /\ \/ qemu_log_instr_check_enabled(machine.cpus[i].log_state)
       \/ machine.cpus[i].log_state.ncommit < MaxTbCommits
    /\ BackendStep(i, qemu_log_instr_flush(
                          [machine.cpus[i].log_state
                              EXCEPT !.backend = <<>>, !.called = <<>>]))

\* the global switch to NONE on the i-th CPU: the stop is committed
BackendStop(i) ==
    /\ ~aborted
    /\ machine.cpus[i].log_state.loglevel_active
    /\ \E recent_pc \in RecentPCs :
           BackendStep(i, do_cpu_loglevel_switch(
                              [machine.cpus[i].log_state
                                  EXCEPT !.backend = <<>>, !.called = <<>>],
                              SwitchArg("NONE", 0, TRUE), recent_pc, FALSE))

\* do_log_backend_sync on the i-th CPU
BackendSync(i) ==
    /\ ~aborted
    /\ MachineStep([machine EXCEPT
           !.backend = CallHookIfThere([@ EXCEPT !.called = <<>>], "sync")])
    /\ UNCHANGED <<qemu_loglevel, aborted>>

\* qemu_log_instr_counter on the i-th CPU
BackendCounter(i) ==
    /\ ~aborted
    /\ MachineStep([machine EXCEPT
           !.backend = CallHookIfThere([@ EXCEPT !.called = <<>>],
                                       "emit_debug")])
    /\ UNCHANGED <<qemu_loglevel, aborted>>

(* ----------------------- translation-time printf ----------------------- *)
\* the flush barrier is the depth of the staging area
QEMU_LOG_PRINTF_FLUSH_BARRIER == QEMU_LOG_PRINTF_BUF_DEPTH

\* the characters of a format string: the percent sign, a conversion that
\* takes an argument, any other character
FmtChars == {"%", "d", "a"}
\* the characters of a type string: a 32-bit and a 64-bit value
TypeChars == {"w", "d"}
FmtStrings == UNION {[1..n -> FmtChars] : n \in 0..MaxFmt}
TypeStrings == UNION {[1..n -> TypeChars] : n \in 0..MaxTypes}

\* the inner loop of qemu_log_gen_printf from the i-th character of fmt:
\* the place after the conversion it stops at, 0 when it reached the end
\* of fmt (c == 0)
RECURSIVE fmt_scan(_, _, _)
fmt_scan(fmt, i, format) ==
    IF i > Len(fmt) THEN 0
    ELSE IF ~format THEN fmt_scan(fmt, i + 1, fmt[i] = "%")
    ELSE IF fmt[i] = "d" THEN i + 1
    ELSE IF fmt[i] = "%" THEN fmt_scan(fmt, i + 1, FALSE)
    ELSE fmt_scan(fmt, i + 1, TRUE)

\* the outer loop from the k-th character of qemu_format: "assert" when
\* assert(c != 0) fails, "ok" when qemu_format is used up
RECURSIVE gen_printf_args(_, _, _, _)
gen_printf_args(qemu_format, fmt, k, i) ==
    IF k > Len(qemu_format) THEN "ok"
    ELSE IF fmt_scan(fmt, i, FALSE) = 0 THEN "assert"
    ELSE gen_printf_args(qemu_format, fmt, k + 1, fmt_scan(fmt, i, FALSE))

\* the slot is reserved only when the counter is at the barrier or beyond
gen_printf_flush_barrieronly(base, flush_early, force_flush) ==
    LET emit == force_flush
                \/ base.printf_used_ptr >= QEMU_LOG_PRINTF_FLUSH_BARRIER
    IN  [base EXCEPT
            !.printf_used_ptr = IF emit THEN 0 ELSE @,
            !.call = GenCall("flush", <<>>, <<>>, base.printf_used_ptr, "ok",
                             emit),
            !.pending = FALSE]

qemu_log_gen_printf_flush(base, flush_early, force_flush) ==
    LET emit == \/ force_flush
                \/ /\ base.printf_used_ptr # 0
                   /\ \/ flush_early
                      \/ base.printf_used_ptr >= QEMU_LOG_PRINTF_FLUSH_BARRIER
    IN  [base EXCEPT
            !.printf_used_ptr = IF emit THEN 0 ELSE @,
            !.call = GenCall("flush", <<>>, <<>>, base.printf_used_ptr, "ok",
                             emit),
            !.pending = FALSE]

\* qemu_base_logging_enabled(base) is base.logging
qemu_log_gen_printf(base, qemu_format, fmt) ==
    LET ndx == base.printf_used_ptr
        outcome == IF ndx >= QEMU_LOG_PRINTF_BUF_DEPTH THEN "depth"
                   ELSE gen_printf_args(qemu_format, fmt, 1, 1)
    IN  IF ~base.logging
        THEN [base EXCEPT
                 !.call = GenCall("printf", qemu_format, fmt, 0, "off",
                                  FALSE)]
        ELSE [base EXCEPT
                 !.printf_used_ptr = @ + 1,
                 !.call = GenCall("printf", qemu_format, fmt, ndx, outcome,
                                  FALSE),
                 !.flushed_each = @ /\ ~base.pending,
                 !.pending = TRUE]

\* the translator calls qemu_log_gen_printf; a failed assertion ends the
\* run
TrGenPrintf(qemu_format, fmt) ==
    /\ ~aborted
    /\ MachineStep([machine EXCEPT
           !.base = qemu_log_gen_printf(@, qemu_format, fmt)])
    /\ aborted' = (machine'.base.call.outcome \in {"depth", "assert"})
    /\ UNCHANGED qemu_loglevel

\* the translator calls qemu_log_gen_printf_flush
TrGenPrintfFlush(flush_early, force_flush) ==
    /\ ~aborted
    /\ MachineStep([machine EXCEPT
           !.base = qemu_log_gen_printf_flush(@, flush_early, force_flush)])
    /\ UNCHANGED <<qemu_loglevel, aborted>>

(* ------------------- callbacks run in exclusive context ---------------- *)
\* The body shared by do_cpu_loglevel_switch and do_global_loglevel_switch,
\* with `flags` the log flags at the log_assert of do_cpu_loglevel_switch.
\* A failed assertion ends the run.
SwitchCallback(arg, flags, recent_pc) ==
    LET in_user == cpu_mode = "USER"
        outcome == SwitchOutcome(cpu, arg, in_user)
        opens == /\ arg.next_level = "ALL" /\ ~cpu.loglevel_active
                 /\ ~cpu.buffered /\ cpu.filters = <<>> /\ ~cpu.force_drop
    IN  IF ~qemu_loglevel_mask(flags, "INSTR") \/ arg.next_level \notin Levels
        THEN /\ aborted' = TRUE
             /\ Done("switch", "abort", 0, env, Disturb(obs))
        ELSE /\ aborted' = aborted
             /\ Done("switch", outcome, 0,
                     do_cpu_loglevel_switch(env, arg, recent_pc, in_user),
                     [drop_since_commit |->
                          IF outcome \in {"stop", "stopstart"} THEN FALSE
                          ELSE obs.drop_since_commit,
                      s4 |-> IF opens
                             THEN [S4Off EXCEPT !.stage = 1,
                                                !.ts0 = cpu.trace_start,
                                                !.tp0 = cpu.trace_stop]
                             ELSE IF obs.s4.stage = 1
                                     /\ arg.next_level = "NONE"
                             THEN [S4Count(obs.s4,
                                           do_cpu_loglevel_switch(
                                               env, arg, recent_pc, in_user),
                                           FALSE) EXCEPT !.stage = 2]
                             ELSE S4Off,
                      s7 |-> IF obs.s7.stage = 1
                             THEN [obs.s7 EXCEPT !.stage = 2]
                             ELSE S7Off])

RunLoglevelSwitch ==
    /\ ~aborted
    /\ work # <<>>
    /\ Head(work).fn = "do_cpu_loglevel_switch"
    /\ cpu.ncommit < MaxCommits
    /\ \E recent_pc \in RecentPCs :
           SwitchCallback(Head(work), qemu_loglevel, recent_pc)
    /\ work' = Tail(work)
    /\ UNCHANGED <<qemu_loglevel, cpu_mode, debug_regions,
                   reset_entry_buffer_size>>

RunGlobalLoglevelSwitch ==
    /\ ~aborted
    /\ work # <<>>
    /\ Head(work).fn = "do_global_loglevel_switch"
    /\ cpu.ncommit < MaxCommits
    /\ qemu_loglevel' = IF Head(work).next_level # "NONE"
                        THEN qemu_loglevel \cup {"INSTR"}
                        ELSE qemu_loglevel
    /\ \E recent_pc \in RecentPCs :
           SwitchCallback(Head(work), qemu_loglevel', recent_pc)
    /\ work' = Tail(work)
    /\ UNCHANGED <<cpu_mode, debug_regions, reset_entry_buffer_size>>

\* With a ring of no entries every later call works on an entry outside
\* the array; the run is not followed beyond the resize.
RunBufferResize ==
    /\ ~aborted
    /\ work # <<>>
    /\ Head(work).fn = "do_log_buffer_resize"
    /\ Done("resize",
            IF guint(Head(work).new_size) < RingLen(cpu) THEN "shrunk"
            ELSE "-",
            DumpsIn(cpu, {k \in 1..RingLen(cpu) :
                             k > guint(Head(work).new_size)}),
            do_log_buffer_resize(env, Head(work).new_size), Disturb(obs))
    /\ work' = Tail(work)
    /\ aborted' = (guint(Head(work).new_size) = 0)
    /\ UNCHANGED <<qemu_loglevel, cpu_mode, debug_regions,
                   reset_entry_buffer_size>>

\* a value of qemu_log_instr_loglevel_t that is none of the three levels
InvalidLevel == "INVALID"

\* cpu_loglevel_switch(env, pc, level, global): the callback is queued
CpuLoglevelSwitch(level, pc, global) ==
    /\ ~aborted
    /\ CanSchedule
    /\ Done("cpu_loglevel_switch", "scheduled", 0, env, Disturb(obs))
    /\ work' = Append(work, [SwitchArg(level, pc, global)
                                EXCEPT !.fn = "do_cpu_loglevel_switch"])
    /\ UNCHANGED <<qemu_loglevel, cpu_mode, debug_regions,
                   reset_entry_buffer_size, aborted>>

\* the CPU changes mode between a report of the target and the callback
\* (an interrupt or exception on the way out of the exclusive context)
CpuMode(mode) ==
    /\ ~aborted
    /\ cpu_mode # mode
    /\ Done("cpu_mode", "-", 0, env, Disturb(obs))
    /\ cpu_mode' = mode
    /\ UNCHANGED <<qemu_loglevel, work, debug_regions,
                   reset_entry_buffer_size, aborted>>

(* -------------------------------- Next --------------------------------- *)
\* The trace controller: level switches, mode switches, commit and drop on
\* a streaming CPU.
Next ==
    \/ Instr(3)
    \/ \E mode \in Modes : ModeSwitch(mode, 1)
    \/ Drop
    \/ Commit
    \/ Flush
    \/ \E log_flags \in StartupFlags : GlobalSwitch(log_flags)
    \/ \E level \in {"ALL", "USER"} : InstrStart(level, 1)
    \/ InstrStop(1)
    \/ RunLoglevelSwitch
    \/ RunGlobalLoglevelSwitch

Spec == Init /\ [][Next]_vars

\* The ring: buffered mode, flush and resize, on a CPU whose tracing is on
\* or off from startup.
InitRing ==
    \/ Startup({{"INSTR"}}, {NULL}, MIN_ENTRY_BUFFER_SIZE..MaxBufferSize)
    \/ Startup({{}}, {NULL}, MIN_ENTRY_BUFFER_SIZE..MaxBufferSize)

\* the sizes asked for and accepted: up to MaxBufferSize, and one past the
\* largest guint
BufferSizes ==
    (MIN_ENTRY_BUFFER_SIZE..MaxBufferSize) \cup {G_MAXUINT + 1}

NextRing ==
    \/ Instr(3)
    \/ Drop
    \/ Commit
    \/ Flush
    \/ \E enable \in BOOLEAN : BufferedMode(enable)
    \/ \E new_size \in BufferSizes : SetBufferSize(new_size)
    \/ RunBufferResize

SpecRing == InitRing /\ [][NextRing]_vars

\* The entry collectors and the filter pipeline, on a CPU that traces from
\* startup.
InitFilter == Startup({{"INSTR"}}, DebugRegionChoices, {MIN_ENTRY_BUFFER_SIZE})

NextFilter ==
    \/ \E pc \in PCs : Instr(pc)
    \/ Reg
    \/ Load(1)
    \/ Event
    \/ Extra
    \/ Drop
    \/ cpu.ncommit < MaxFiltered /\ Commit
    \/ \E enable \in BOOLEAN : BufferedMode(enable)
    \/ \E filter \in 0..(LOG_INSTR_FILTER_MAX - 1) : AddFilter(filter)
    \/ \E filter \in 0..(LOG_INSTR_FILTER_MAX - 1) : RemoveFilter(filter)

SpecFilter == InitFilter /\ [][NextFilter]_vars

\* Trace slices on the ring: the switches of the trace controller together
\* with buffered mode, flush and resize, on a CPU that traces from startup.
InitSlice == Startup({{"INSTR"}}, {NULL}, {MIN_ENTRY_BUFFER_SIZE})

NextSlice ==
    \/ Drop
    \/ Commit
    \/ Flush
    \/ \E enable \in BOOLEAN : BufferedMode(enable)
    \/ \E log_flags \in {{}, {"INSTR"}} : GlobalSwitch(log_flags)
    \/ RunGlobalLoglevelSwitch
    \/ \E new_size \in BufferSizes : SetBufferSize(new_size)
    \/ RunBufferResize

SpecSlice == InitSlice /\ [][NextSlice]_vars

\* The global switch on a machine of zero or more CPUs, from the monitor's
\* call to the callbacks on the CPUs.
InitGlobal ==
    /\ StartupCpu(StartupFlags, {NULL}, {MIN_ENTRY_BUFFER_SIZE})
    /\ \E count \in 0..MaxCpus, recent_pc \in RecentPCs :
           machine = Machine(count, recent_pc)

NextGlobal ==
    \/ \E log_flags \in FlagWords : GlobalSwitchAll(log_flags)
    \/ \E i \in 1..Len(machine.cpus) :
           \/ ExecTb(i)
           \/ TbCommit(i)
           \/ ExitTb(i)
           \/ RunGlobalOn(i)

SpecGlobal == InitGlobal /\ [][NextGlobal]_vars

\* User input: buffer sizes and filter indices, valid and invalid, on a
\* CPU that traces into its ring.
InitInput == Startup({{"INSTR"}}, {NULL}, {MIN_ENTRY_BUFFER_SIZE})

NextInput ==
    \/ \E pc \in PCs : Instr(pc)
    \/ Commit
    \/ \E enable \in BOOLEAN : BufferedMode(enable)
    \/ \E filter \in 0..LOG_INSTR_FILTER_MAX : AddFilter(filter)
    \/ \E filter \in 0..LOG_INSTR_FILTER_MAX : RemoveFilter(filter)
    \/ \E new_size \in 0..MaxBufferSize : SetBufferSize(new_size)
    \/ RunBufferResize

SpecInput == InitInput /\ [][NextInput]_vars

\* Startup: filters given on the command line before and after the CPUs
\* are created, and the filter lists of the CPUs from then on.
InitBoot == Startup({{}}, {NULL}, {MIN_ENTRY_BUFFER_SIZE})

NextBoot ==
    \/ \E filter \in 0..(LOG_INSTR_FILTER_MAX - 1) : AddStartupFilter(filter)
    \/ \E names \in FilterSpecs : SetCliFilters(names)
    \/ CpuCreate
    \/ \E i \in 1..Len(machine.cpus),
          filter \in 0..(LOG_INSTR_FILTER_MAX - 1) :
           \/ AddFilterOn(i, filter)
           \/ RemoveFilterOn(i, filter)

SpecBoot == InitBoot /\ [][NextBoot]_vars

\* The memory regions filter over the -dfilter choices: not given, given
\* without a range, one range, two ranges.
RegionChoices ==
    {NULL, <<>>, <<[lob |-> 1, upb |-> 1]>>,
     <<[lob |-> 3, upb |-> 3], [lob |-> 2, upb |-> 2]>>}

InitRegions == Startup({{"INSTR"}}, RegionChoices, {MIN_ENTRY_BUFFER_SIZE})

NextRegions ==
    \/ \E pc \in PCs : Instr(pc)
    \/ \E addr \in PCs : Load(addr)
    \/ AddFilter(LOG_FILTER_MEM_REGIONS)
    \/ Commit

SpecRegions == InitRegions /\ [][NextRegions]_vars

\* Staged printf on a CPU that traces from startup or does not trace.
InitPrintf == Startup({{}, {"INSTR"}}, {NULL}, {MIN_ENTRY_BUFFER_SIZE})

NextPrintf ==
    \/ \E ndx \in 0..(QEMU_LOG_PRINTF_BUF_DEPTH - 1) : GenPrintf(ndx)
    \/ PrintfDump
    \/ Instr(3)
    \/ Commit

SpecPrintf == InitPrintf /\ [][NextPrintf]_vars

\* Ownership: the all-CPU helpers of the guest and of the monitor on a
\* machine of one or more CPUs, and the callbacks they queue.
InitOwner ==
    /\ StartupCpu({{}, {"INSTR"}}, {NULL}, {MIN_ENTRY_BUFFER_SIZE})
    /\ \E count \in 1..MaxCpus, recent_pc \in RecentPCs :
           machine = Machine(count, recent_pc)

NextOwner ==
    \/ \E caller \in 1..Len(machine.cpus), level \in {"ALL", "USER"} :
           AllcpuStart(caller, level)
    \/ \E caller \in 1..Len(machine.cpus) : AllcpuStop(caller)
    \/ \E filter \in 0..(LOG_INSTR_FILTER_MAX - 1) :
           \/ AllcpuAddFilter(0, filter)
           \/ AllcpuRemoveFilter(0, filter)
    \/ \E i \in 1..Len(machine.cpus) : RunCpuSwitchOn(i)

SpecOwner == InitOwner /\ [][NextOwner]_vars

\* The level switch as a function of its argument and of the CPU it
\* finds: every value of the level, the three levels and one that is none
\* of them, with and without a mode switch in the current entry.
InitSwitch == Startup(StartupFlags, {NULL}, {MIN_ENTRY_BUFFER_SIZE})

NextSwitch ==
    \/ Instr(3)
    \/ \E mode \in Modes : ModeSwitch(mode, 1)
    \/ \E mode \in Modes : CpuMode(mode)
    \/ Commit
    \/ \E level \in Levels \cup {InvalidLevel}, global \in BOOLEAN :
           CpuLoglevelSwitch(level, 1, global)
    \/ RunLoglevelSwitch

SpecSwitch == InitSwitch /\ [][NextSwitch]_vars

\* The backend stream of a streaming CPU over level switches, commits and
\* drops, with the observer of the stream switched on.
InitBracket ==
    /\ StartupWatch(StartupFlags, {NULL}, {MIN_ENTRY_BUFFER_SIZE}, TRUE)
    /\ machine = Machine(0, 0)

NextBracket ==
    \/ Instr(3)
    \/ Drop
    \/ Commit
    \/ \E log_flags \in StartupFlags : GlobalSwitch(log_flags)
    \/ \E mode \in Modes : ModeSwitch(mode, 1)
    \/ RunLoglevelSwitch
    \/ RunGlobalLoglevelSwitch

SpecBracket == InitBracket /\ [][NextBracket]_vars

\* The backend hooks: builds without, with one and with all of the optional
\* backends, every backend the selector can name, one CPU or more tracing
\* from startup.
InitBackend ==
    /\ StartupCpu({{"INSTR"}}, {NULL}, {MIN_ENTRY_BUFFER_SIZE})
    /\ \E compiled \in {{}, {"JSON"}, OptionalBackends},
          k \in 1..Len(BackendNames) :
           machine = [Machine(0, 0) EXCEPT
                         !.backend = Backend(compiled, BackendNames[k])]

NextBackend ==
    \/ BackendCpuCreate
    \/ \E i \in {k \in 1..Len(machine.cpus) : k <= MaxFollowed} :
           \/ BackendCommit(i)
           \/ BackendDrop(i)
           \/ \E enable \in BOOLEAN : BackendBufferedMode(i, enable)
           \/ BackendFlush(i)
           \/ BackendStop(i)
           \/ BackendSync(i)
           \/ BackendCounter(i)

SpecBackend == InitBackend /\ [][NextBackend]_vars

\* The translator: the printfs it stages and the flushes it asks for, in
\* a block translated with logging on or off.
InitTranslate ==
    /\ StartupCpu({{"INSTR"}}, {NULL}, {MIN_ENTRY_BUFFER_SIZE})
    /\ \E logging \in BOOLEAN :
           machine = [Machine(0, 0) EXCEPT
                         !.base = DisasContextBase(logging)]

NextTranslate ==
    \/ \E qemu_format \in TypeStrings, fmt \in FmtStrings :
           TrGenPrintf(qemu_format, fmt)
    \/ \E flush_early, force_flush \in BOOLEAN :
           TrGenPrintfFlush(flush_early, force_flush)

SpecTranslate == InitTranslate /\ [][NextTranslate]_vars

(* ------------------------------ properties ----------------------------- *)
\* a step of the CPU made by the named operation
Step(op) == last'.op = op /\ last'.outcome # "abort"

\* the commit numbers of a sequence of emit_instr calls
Tags(calls) == [i \in 1..Len(calls) |-> calls[i].tag]

\* C1: after every call of qemu_log_instr_commit, in streaming and in
\* buffered mode, whether the entry was emitted, stored, force-dropped or
\* rejected by a filter, the entry at ring_head has no register, memory or
\* event records, an empty text buffer and flags = 0.
C1_CommitLeavesEntryEmpty ==
    last.op = "commit" =>
        LET entry == get_cpu_log_entry(cpu)
        IN  /\ Len(entry.regs) = 0
            /\ Len(entry.mem) = 0
            /\ Len(entry.events) = 0
            /\ entry.txt_buffer = <<>>
            /\ entry.flags = {}

\* a buffered commit has stored an entry that holds records of every kind,
\* and the entry now at ring_head is another slot
C1_Witness ==
    /\ last.op = "commit" /\ last.outcome = "stored"
    /\ \E slot \in 1..RingLen(cpu) :
           /\ slot # cpu.ring_head + 1
           /\ cpu.tags[slot] = cpu.ncommit
           /\ Len(cpu.instr_info[slot].regs) > 0
           /\ Len(cpu.instr_info[slot].mem) > 0
           /\ Len(cpu.instr_info[slot].events) > 0
           /\ cpu.instr_info[slot].txt_buffer # <<>>
           /\ cpu.instr_info[slot].flags # {}

\* C3: a commit that is not force-dropped calls the filters in list order
\* and stops at the first one that returns false: then the entry is neither
\* emitted nor stored and no later filter is called.  The entry is emitted
\* or stored only if every filter returned true.
C3_FiltersInOrderUntilFalse ==
    [][(Step("commit") /\ ~cpu.force_drop) =>
        LET entry == get_cpu_log_entry(cpu)
            filters == cpu.filters
            called == cpu'.called
            n == Len(called)
            passed == cpu'.ncommit = cpu.ncommit + 1
            all_true == \A i \in 1..Len(filters) :
                            trace_filters(filters[i], entry)
        IN  /\ n <= Len(filters)
            /\ called = SubSeq(filters, 1, n)
            /\ \A i \in 1..(n - 1) : trace_filters(called[i], entry)
            /\ n < Len(filters) =>
                   n >= 1 /\ ~trace_filters(called[n], entry)
            /\ passed <=> all_true
            /\ ~all_true =>
                   /\ cpu'.backend = <<>>
                   /\ cpu'.ring_head = cpu.ring_head
                   /\ cpu'.stored = cpu.stored
            /\ all_true =>
                   IF cpu.buffered
                   THEN cpu'.stored = Append(cpu.stored, cpu'.ncommit)
                   ELSE Len(cpu'.backend) = 1
    ]_vars

\* with two filters installed, a commit stopped at the first one
C3_Witness ==
    /\ last.op = "commit" /\ last.outcome = "filtered"
    /\ Len(cpu.filters) = 2
    /\ Len(cpu.called) = 1

\* C2: if drop() was called since the previous commit, the next commit hands
\* nothing to the backend and does not advance ring_head; the content of
\* the entry is discarded and force_drop is false afterwards.
C2_DropBeforeCommit ==
    [][(Step("commit") /\ obs.drop_since_commit) =>
        /\ cpu'.backend = <<>>
        /\ cpu'.ring_head = cpu.ring_head
        /\ get_cpu_log_entry(cpu') = EmptyEntry
        /\ ~cpu'.force_drop
    ]_vars

\* C4: on a streaming CPU without filters and without drop(), a switch from
\* inactive to ALL, k >= 1 instruction commits and a switch to NONE make
\* exactly k + 1 emit_instr calls; the first entry holds the data of the
\* first instruction and a START event followed by a REGDUMP event, the
\* last one holds a STOP event; trace_start and trace_stop have both
\* advanced by one (to 1 on a CPU that starts from zero).
C4_SliceEmitsStartAndStop ==
    (obs.s4.stage = 2 /\ obs.s4.k >= 1) =>
        /\ obs.s4.n = obs.s4.k + 1
        /\ Len(obs.s4.first) = 1
        /\ LET first == obs.s4.first[1]
           IN  /\ "HAS_INSTR_DATA" \in first.flags
               /\ Len(first.events) >= 2
               /\ first.events[1].id = "STATE"
               /\ first.events[1].next_state = "START"
               /\ first.events[2].id = "REGDUMP"
        /\ Len(cpu.backend) = 1
        /\ HasEvent(cpu.backend[1].entry, "STOP")
        /\ cpu.trace_start = obs.s4.ts0 + 1
        /\ cpu.trace_stop = obs.s4.tp0 + 1

\* a slice of two instructions has just been closed on a CPU whose
\* counters started from zero
C4_Witness ==
    /\ obs.s4.stage = 2 /\ obs.s4.k = 2
    /\ last.op = "switch" /\ last.outcome = "stop"
    /\ cpu.trace_start = 1 /\ cpu.trace_stop = 1

\* C5: an activating switch increments trace_start once and emits nothing;
\* a deactivating switch that follows it with no commit in between
\* (starting still true) emits nothing, resets the entry, so that neither
\* the START nor a STOP event reaches the backend, and leaves trace_start
\* and trace_stop as they were.
C5_PendingStartDiscarded ==
    [][Step("switch") =>
        /\ (~cpu.loglevel_active /\ cpu'.loglevel_active) =>
               /\ cpu'.trace_start = cpu.trace_start + 1
               /\ cpu'.trace_stop = cpu.trace_stop
               /\ cpu'.starting
               /\ cpu'.backend = <<>>
        /\ (cpu.loglevel_active /\ cpu.starting /\ ~cpu'.loglevel_active) =>
               /\ cpu'.backend = <<>>
               /\ cpu'.entries_emitted = cpu.entries_emitted
               /\ get_cpu_log_entry(cpu') = EmptyEntry
               /\ ~cpu'.starting
               /\ cpu'.trace_start = cpu.trace_start
               /\ cpu'.trace_stop = cpu.trace_stop
    ]_vars

\* the start made at run time was discarded by the switch to NONE
C5_Witness ==
    /\ last.op = "switch" /\ last.outcome = "discard"
    /\ ~cpu.loglevel_active
    /\ cpu.trace_start = 1 /\ cpu.trace_stop = 0
    /\ cpu.entries_emitted = 0

\* C6: a switch whose new level and new activity equal the previous ones
\* appends no event, emits nothing and leaves starting, force_drop,
\* trace_start, trace_stop, ring_head and ring_tail unchanged.
C6_NoopSwitch ==
    [][(/\ Step("switch")
        /\ cpu'.loglevel = cpu.loglevel
        /\ cpu'.loglevel_active = cpu.loglevel_active) =>
        /\ get_cpu_log_entry(cpu').events = get_cpu_log_entry(cpu).events
        /\ cpu'.backend = <<>>
        /\ cpu'.starting = cpu.starting
        /\ cpu'.force_drop = cpu.force_drop
        /\ cpu'.trace_start = cpu.trace_start
        /\ cpu'.trace_stop = cpu.trace_stop
        /\ cpu'.ring_head = cpu.ring_head
        /\ cpu'.ring_tail = cpu.ring_tail
    ]_vars

\* a no-op switch ran while a start was pending and drop() had been called
C6_Witness ==
    /\ last.op = "switch" /\ last.outcome = "noop"
    /\ cpu.loglevel_active /\ cpu.starting /\ cpu.force_drop
    /\ HasEvent(get_cpu_log_entry(cpu), "START")

\* C7: at level USER with the global bit set and the CPU inactive in kernel
\* mode, mode_switch(USER, pc) marks the entry and schedules a switch; once
\* the switch has run loglevel_active is true, and the next commit emits an
\* entry with a START event whose pc is the pc given to mode_switch.
C7_UserModeStart ==
    /\ obs.s7.stage = 1 =>
           /\ "MODE_SWITCH" \in get_cpu_log_entry(cpu).flags
           /\ get_cpu_log_entry(cpu).next_cpu_mode = "USER"
           /\ work # <<>>
           /\ Head(work) = SwitchArg("USER", obs.s7.pc, FALSE)
    /\ obs.s7.stage = 2 => cpu.loglevel_active
    /\ obs.s7.stage = 3 =>
           /\ Len(cpu.backend) = 1
           /\ \E i \in 1..Len(cpu.backend[1].entry.events) :
                  cpu.backend[1].entry.events[i]
                      = StateEvent("START", obs.s7.pc)

\* the commit after the mode switch has emitted its entry
C7_Witness ==
    /\ obs.s7.stage = 3
    /\ last.op = "commit" /\ last.outcome = "emitted"
    /\ cpu.loglevel = "USER" /\ cpu.loglevel_active

\* C8: whenever the BUFFERED flag is clear, ring_head equals ring_tail, also
\* after BUFFERED was cleared while the ring held committed entries.
C8_StreamingRingEmpty ==
    ~cpu.buffered => cpu.ring_head = cpu.ring_tail

\* the last n elements of a sequence
LastN(seq, n) == SubSeq(seq, Len(seq) - n + 1, Len(seq))

\* a flush of a buffered CPU whose ring took more entries than it has slots
\* since it was last drained
FlushAfterOverflow ==
    Step("flush") /\ cpu.buffered /\ Len(cpu.stored) > RingLen(cpu)

\* C9 as stated: in buffered mode with ring size N, a flush after M > N
\* commits without a flush makes exactly N emit_instr calls, for the N
\* entries committed last.
C9_FlushEmitsRingSize ==
    [][FlushAfterOverflow =>
        Tags(cpu'.backend) = LastN(cpu.stored, RingLen(cpu))
    ]_vars

\* C9 amended: in buffered mode with ring size N, a flush after M > N
\* commits without a flush makes at most N - 1 emit_instr calls, all for
\* entries among the N - 1 committed last, and makes exactly those N - 1
\* calls in commit order when tracing is enabled at the flush; the first
\* M - N + 1 entries are never emitted.
C9_FlushEmitsRingSizeLessOne ==
    [][FlushAfterOverflow =>
        LET recent == LastN(cpu.stored, RingLen(cpu) - 1)
            lost == SubSeq(cpu.stored, 1, Len(cpu.stored) - RingLen(cpu) + 1)
            emitted == Tags(cpu'.backend)
        IN  /\ Len(emitted) <= RingLen(cpu) - 1
            /\ \A i \in 1..Len(emitted) : InSeq(recent, emitted[i])
            /\ \A i \in 1..Len(lost) : ~InSeq(emitted, lost[i])
            /\ qemu_log_instr_check_enabled(cpu) => emitted = recent
    ]_vars

\* a flush with tracing enabled has drained a ring that had overflowed
C9_Witness ==
    /\ last.op = "flush" /\ last.outcome = "enabled"
    /\ cpu.buffered
    /\ last.m > RingLen(cpu)
    /\ Len(cpu.backend) = RingLen(cpu) - 1

\* a flush of a buffered CPU whose ring took fewer entries than it has
\* slots since it was last drained
FlushBeforeOverflow ==
    Step("flush") /\ cpu.buffered /\ Len(cpu.stored) < RingLen(cpu)

\* C10 as stated: in buffered mode a flush after n commits (n at least 1
\* and below the ring size) makes n emit_instr calls for those entries in commit order
\* and one more for an entry with a FLUSH event, and leaves ring_tail equal
\* to ring_head; the commits themselves make no emit_instr call.
C10_FlushEmitsFlushEntry ==
    [][/\ (FlushBeforeOverflow /\ Len(cpu.stored) >= 1) =>
           LET n == Len(cpu.stored)
           IN  /\ Len(cpu'.backend) = n + 1
               /\ SubSeq(Tags(cpu'.backend), 1, n) = cpu.stored
               /\ HasEvent(cpu'.backend[n + 1].entry, "FLUSH")
               /\ cpu'.ring_tail = cpu'.ring_head
       /\ (Step("commit") /\ cpu.buffered) => cpu'.backend = <<>>
    ]_vars

\* C10 amended: in buffered mode a flush after n commits (n below the ring
\* size), made while tracing is enabled, makes exactly n emit_instr calls,
\* for those entries in commit order and as they were stored; the FLUSH
\* event is appended to the entry at ring_head, which this flush does not
\* emit.  In every case the flush makes at most n + 1 calls, in commit
\* order, and leaves ring_tail equal to ring_head; the commits themselves
\* make no emit_instr call.
C10_FlushDrainsInOrder ==
    [][/\ FlushBeforeOverflow =>
           LET n == Len(cpu.stored)
               emitted == Tags(cpu'.backend)
           IN  /\ Len(emitted) <= n + 1
               /\ \A i \in 1..(Len(emitted) - 1) : emitted[i] < emitted[i + 1]
               /\ cpu'.ring_tail = cpu'.ring_head
               /\ qemu_log_instr_check_enabled(cpu) =>
                      /\ emitted = cpu.stored
                      /\ \A i \in 1..n :
                             cpu'.backend[i].entry =
                                 cpu.instr_info[
                                     ((cpu.ring_tail + i - 1) % RingLen(cpu)) + 1]
                      /\ cpu'.ring_head = cpu.ring_head
                      /\ get_cpu_log_entry(cpu').events =
                             Append(get_cpu_log_entry(cpu).events,
                                    StateEvent("FLUSH",
                                               get_cpu_log_entry(cpu).pc))
       /\ (Step("commit") /\ cpu.buffered) => cpu'.backend = <<>>
    ]_vars

\* a flush with tracing enabled has drained two entries from a ring of
\* three slots
C10_Witness ==
    /\ last.op = "flush" /\ last.outcome = "enabled"
    /\ cpu.buffered
    /\ last.m = 2 /\ RingLen(cpu) = 3
    /\ Len(cpu.backend) = 2
    /\ cpu.backend[1].tag < cpu.backend[2].tag
    /\ cpu.ring_tail = cpu.ring_head

\* C11: in buffered mode ring_head and ring_tail are valid slot indices
\* (0 <= index < ring size) and the number of entries committed and not yet
\* emitted, (ring_head - ring_tail) mod ring size, is below the ring size,
\* after every operation, commits that overflow the ring and resizes
\* included.
C11_RingIndicesValid ==
    cpu.buffered =>
        /\ 0 <= cpu.ring_head /\ cpu.ring_head < RingLen(cpu)
        /\ 0 <= cpu.ring_tail /\ cpu.ring_tail < RingLen(cpu)
        /\ (cpu.ring_head - cpu.ring_tail) % RingLen(cpu) < RingLen(cpu)

\* C12: on one CPU the entries passed to emit_instr are committed entries
\* and follow each other in commit order, none of them twice: in streaming
\* mode, in buffered mode across flushes and ring overflows, and across
\* switches between the two modes at run time.
C12_EmitInCommitOrder ==
    [][LET emitted == Tags(cpu'.backend)
       IN  /\ \A i \in 1..Len(emitted) : emitted[i] >= 1
           /\ \A i \in 1..(Len(emitted) - 1) : emitted[i] < emitted[i + 1]
           /\ emitted # <<>> => cpu.last_emitted < emitted[1]
    ]_vars

\* C13: every register array attached to an entry by a REGDUMP event is
\* released exactly once: never twice, and not later than the reset of its
\* slot, the overwriting of the slot after a ring overflow, the discard of
\* a pending start, or the destruction of the slot by a shrinking resize.
\* An array that was never freed is still held by one event of one ring
\* slot; a freed one is held by none.
C13_RegdumpReleasedOnce ==
    \A gpr \in 1..Len(cpu.heap) :
        LET holders == DumpHolders(cpu, 1..RingLen(cpu), gpr)
        IN  /\ cpu.heap[gpr] <= 1
            /\ cpu.heap[gpr] = 0 => Cardinality(holders) = 1
            /\ cpu.heap[gpr] = 1 => holders = {}

\* a shrinking resize has destroyed the slot that held the register array
\* of a pending start, after the array of an earlier start was freed by the
\* reset of its slot
C13_Witness ==
    /\ last.op = "resize" /\ last.outcome = "shrunk" /\ last.m = 1
    /\ Len(cpu.heap) = 2
    /\ cpu.heap[1] = 1 /\ cpu.heap[2] = 1

\* a call of one of the entry collectors
Collector ==
    \/ \E pc \in PCs \cup {3} : Instr(pc)
    \/ Reg
    \/ \E addr \in PCs : Load(addr)
    \/ Event
    \/ Extra

\* C14: whenever check_enabled(env) is false, a call of a collector (reg,
\* ld_int, instr, event, extra, ... and their helper_* wrappers) is a no-op:
\* it leaves the records, the flags and the text buffer of the current entry
\* and all other per-CPU state unchanged.
C14_CollectorsNoopWhenDisabled ==
    [][(Collector /\ ~qemu_log_instr_check_enabled(cpu)) => cpu' = env]_vars

\* C15: qemu_log_instr_global_switch returns its argument with the INSTR
\* bit added whenever the INSTR_U bit is set, and the argument itself
\* otherwise, for every number of CPUs, zero included.
C15_GlobalSwitchNormalizes ==
    [][\A log_flags \in FlagWords :
          GlobalSwitchAll(log_flags) =>
              machine'.ret = <<IF "INSTR_U" \in log_flags
                               THEN log_flags \cup {"INSTR"}
                               ELSE log_flags>>]_vars

\* C16: qemu_log_instr_global_switch changes no CPU's log state and not the
\* global flags; it queues exactly one callback per CPU, carrying the level
\* of the flag word.  A CPU's level, activity and trace slice change only in
\* its callback, which runs outside the CPU's translation block.
C16_GlobalSwitchDeferred ==
    [][/\ \A log_flags \in FlagWords :
             GlobalSwitchAll(log_flags) =>
                 /\ qemu_loglevel' = qemu_loglevel
                 /\ Len(machine'.cpus) = Len(machine.cpus)
                 /\ \A i \in 1..Len(machine.cpus) :
                        /\ machine'.cpus[i].log_state
                               = machine.cpus[i].log_state
                        /\ machine'.cpus[i].in_tb = machine.cpus[i].in_tb
                        /\ Len(machine'.cpus[i].work)
                               = Len(machine.cpus[i].work) + 1
                        /\ SubSeq(machine'.cpus[i].work, 1,
                                  Len(machine.cpus[i].work))
                               = machine.cpus[i].work
                        /\ LET arg == machine'.cpus[i].work[
                                          Len(machine'.cpus[i].work)]
                           IN  /\ arg.fn = "do_global_loglevel_switch"
                               /\ arg.global
                               /\ arg.next_level =
                                      IF "INSTR_U" \in log_flags THEN "USER"
                                      ELSE IF "INSTR" \in log_flags
                                           THEN "ALL"
                                           ELSE "NONE"
       /\ \A i \in 1..Len(machine.cpus) :
             LET old == machine.cpus[i].log_state
                 new == machine'.cpus[i].log_state
             IN  (\/ new.loglevel # old.loglevel
                  \/ new.loglevel_active # old.loglevel_active
                  \/ new.trace_start # old.trace_start
                  \/ new.trace_stop # old.trace_stop) =>
                     /\ ~machine.cpus[i].in_tb
                     /\ machine.cpus[i].work # <<>>
                     /\ machine'.cpus[i].work = Tail(machine.cpus[i].work)]_vars

\* two CPUs, one inside its translation block, each with a start queued by
\* one global switch; the other CPU has applied it
C16_Witness ==
    /\ Len(machine.cpus) = 2
    /\ machine.ret = <<{"INSTR"}>>
    /\ machine.cpus[1].in_tb
    /\ machine.cpus[1].work # <<>>
    /\ ~machine.cpus[1].log_state.loglevel_active
    /\ machine.cpus[2].work = <<>>
    /\ machine.cpus[2].log_state.loglevel_active

\* C17: whenever the callback of a global switch runs, whatever its level
\* and whatever the global flags were, the INSTR bit of the global flags is
\* set when the switch is applied, and the assertion of
\* do_cpu_loglevel_switch holds.
C17_GlobalSwitchSetsBit ==
    [][RunGlobalLoglevelSwitch =>
          /\ qemu_loglevel_mask(qemu_loglevel', "INSTR")
          /\ ~aborted']_vars

\* C18: in every reachable state a CPU whose loglevel_active is set finds
\* the INSTR bit of the global flags set, so that
\* qemu_log_instr_check_enabled agrees with loglevel_active.
C18_ActiveImpliesGlobalBit ==
    cpu.loglevel_active =>
        /\ qemu_loglevel_mask(qemu_loglevel, "INSTR")
        /\ qemu_log_instr_check_enabled(cpu)

\* a switch at run time has just made the CPU active
C18_Witness ==
    /\ last.op = "switch"
    /\ last.outcome = "start"
    /\ cpu.loglevel_active
    /\ cpu.trace_start = 1

\* C19: whenever starting is set, the entry at ring_head holds a START
\* event, and from the switch that set starting on no entry is passed to
\* emit_instr or stored in the ring, whatever is called in between: commit,
\* drop, flush, buffered-mode toggles, ring resize.
C19_StartingNothingEmitted ==
    [][/\ cpu'.starting =>
             /\ cpu'.ring_head < RingLen(cpu')
             /\ HasEvent(get_cpu_log_entry(cpu'), "START")
       /\ (cpu.starting /\ cpu'.starting) =>
             /\ cpu'.backend = <<>>
             /\ \A i \in 1..Len(cpu'.stored) :
                    InSeq(cpu.stored, cpu'.stored[i])]_vars

\* C20: qemu_log_instr_set_buffer_size with a size below
\* MIN_ENTRY_BUFFER_SIZE, and qemu_log_instr_add_filter and
\* qemu_log_instr_remove_filter with an index outside the registry, change
\* nothing: not the default ring size, not the CPU's ring, ring_head,
\* ring_tail or filter list, and no resize is scheduled.
C20_InvalidInputIgnored ==
    [][(\/ \E new_size \in 0..(MIN_ENTRY_BUFFER_SIZE - 1) :
              SetBufferSize(new_size)
        \/ AddFilter(LOG_INSTR_FILTER_MAX)
        \/ RemoveFilter(LOG_INSTR_FILTER_MAX)) =>
           /\ reset_entry_buffer_size' = reset_entry_buffer_size
           /\ work' = work
           /\ cpu'.instr_info = cpu.instr_info
           /\ cpu'.ring_head = cpu.ring_head
           /\ cpu'.ring_tail = cpu.ring_tail
           /\ cpu'.filters = cpu.filters
           /\ cpu' = env
           /\ qemu_loglevel' = qemu_loglevel]_vars

\* an invalid filter index was given to a CPU that has a filter and
\* entries in its ring
C20_Witness ==
    /\ last.op = "add_filter"
    /\ last.outcome = "rejected"
    /\ cpu.filters # <<>>
    /\ cpu.ring_head # cpu.ring_tail

\* C21: when the resize scheduled by an accepted
\* qemu_log_instr_set_buffer_size(n) has run, the ring has exactly n slots,
\* ring_head = ring_tail = 0 and every slot is empty; the call itself leaves
\* the ring alone.
C21_ResizeGivesRequestedRing ==
    [][/\ RunBufferResize =>
             /\ RingLen(cpu') = Head(work).new_size
             /\ cpu'.ring_head = 0
             /\ cpu'.ring_tail = 0
             /\ \A k \in 1..RingLen(cpu') : cpu'.instr_info[k] = EmptyEntry
       /\ \A new_size \in BufferSizes :
             SetBufferSize(new_size) =>
                 /\ cpu'.instr_info = cpu.instr_info
                 /\ cpu'.ring_head = cpu.ring_head
                 /\ cpu'.ring_tail = cpu.ring_tail]_vars

\* C22: whatever qemu_log_instr_add_filter and qemu_log_instr_remove_filter
\* calls were made on a CPU, its filter list holds no filter twice; an add
\* leaves the filter in the list, and a remove takes the filter out and
\* leaves the other filters in the order they had.
C22_FiltersUniqueOrderKept ==
    [][/\ \A i \in 1..Len(machine'.cpus) :
             LET new == machine'.cpus[i].log_state.filters
             IN  \A j, k \in 1..Len(new) : new[j] = new[k] => j = k
       /\ \A i \in 1..Len(machine.cpus),
             filter \in 0..(LOG_INSTR_FILTER_MAX - 1) :
             LET old == machine.cpus[i].log_state.filters
                 new == machine'.cpus[i].log_state.filters
             IN  /\ AddFilterOn(i, filter) =>
                        /\ InSeq(new, filter)
                        /\ SubSeq(new, 1, Len(old)) = old
                 /\ RemoveFilterOn(i, filter) =>
                        new = SelectSeq(old, LAMBDA x : x # filter)]_vars

\* the first of the two filters of a CPU was removed: the last one took
\* its place
C22_Witness ==
    /\ machine.note.op = "remove_filter"
    /\ machine.note.arg[2] = 1
    /\ Len(machine.cpus[machine.note.caller].log_state.filters) = 1

\* C24: a CPU is created with every filter that
\* qemu_log_instr_add_startup_filter was given while no CPU existed, each
\* exactly once, and with no other filter; a filter given to
\* qemu_log_instr_add_startup_filter while CPUs exist is in the list of
\* every one of them afterwards.
C24_StartupFiltersApplied ==
    [][/\ CpuCreate =>
             LET new == machine'.cpus[Len(machine'.cpus)].log_state.filters
             IN  \A filter \in 0..(LOG_INSTR_FILTER_MAX - 1) :
                     Cardinality({k \in 1..Len(new) : new[k] = filter})
                         = IF InSeq(machine.reset_filters, filter) THEN 1
                           ELSE 0
       /\ \A filter \in 0..(LOG_INSTR_FILTER_MAX - 1) :
             AddStartupFilter(filter) =>
                 IF machine.cpus = <<>>
                 THEN /\ machine'.reset_filters
                             = Append(machine.reset_filters, filter)
                      /\ machine'.cpus = <<>>
                 ELSE \A i \in 1..Len(machine'.cpus) :
                          InSeq(machine'.cpus[i].log_state.filters,
                                filter)]_vars

\* a second CPU was created from a reset list that names a filter twice
C24_Witness ==
    /\ machine.note.op = "cpu_create"
    /\ Len(machine.cpus) = 2
    /\ Len(machine.reset_filters) = 3
    /\ Len(machine.cpus[2].log_state.filters) = 2

\* C25: qemu_log_instr_set_cli_filters takes the names from left to right;
\* every "events" up to the first unknown name adds the EVENTS startup
\* filter (to the reset list while no CPU exists, to every CPU otherwise),
\* an unknown name sets the error, and what the names before it added
\* stays.
C25_CliFiltersLeftToRight ==
    [][\A names \in FilterSpecs :
          SetCliFilters(names) =>
              LET unknown == {j \in 1..Len(names) : names[j] # "events"}
                  stop == IF unknown = {} THEN Len(names) + 1
                          ELSE CHOOSE j \in unknown :
                                   \A k \in unknown : j <= k
                  added == stop - 1
              IN  /\ machine'.errp # <<>> <=> unknown # {}
                  /\ Len(machine'.cpus) = Len(machine.cpus)
                  /\ IF machine.cpus = <<>>
                     THEN /\ Len(machine'.reset_filters)
                                 = Len(machine.reset_filters) + added
                          /\ SubSeq(machine'.reset_filters, 1,
                                    Len(machine.reset_filters))
                                 = machine.reset_filters
                          /\ \A k \in (Len(machine.reset_filters) + 1)
                                          ..Len(machine'.reset_filters) :
                                 machine'.reset_filters[k]
                                     = LOG_FILTER_EVENTS
                     ELSE /\ machine'.reset_filters = machine.reset_filters
                          /\ \A i \in 1..Len(machine.cpus) :
                                 machine'.cpus[i].log_state.filters =
                                     IF added = 0
                                        \/ InSeq(machine.cpus[i].log_state
                                                     .filters,
                                                 LOG_FILTER_EVENTS)
                                     THEN machine.cpus[i].log_state.filters
                                     ELSE Append(
                                              machine.cpus[i].log_state
                                                  .filters,
                                              LOG_FILTER_EVENTS)]_vars

\* "events,regions,events" was given before any CPU existed: the error is
\* set and the first name has put EVENTS on the reset list
C25_Witness ==
    /\ machine.note.op = "set_cli_filters"
    /\ machine.note.names = <<"events", "regions", "events">>
    /\ machine.errp # <<>>
    /\ machine.cpus = <<>>
    /\ machine.reset_filters = <<LOG_FILTER_EVENTS>>

\* C23: the memory regions filter passes an entry exactly when
\* debug_regions is empty (not given, or given without a range) or one of
\* its ranges holds the pc of the entry or the address of one of its memory
\* records.  Seen at the commit of a streaming CPU whose only filter it is.
C23_MemRegionsFilter ==
    [][(Commit /\ cpu.filters = <<LOG_FILTER_MEM_REGIONS>>
               /\ ~cpu.force_drop /\ ~cpu.buffered) =>
          LET entry == get_cpu_log_entry(cpu)
              regions == IF debug_regions = NULL THEN <<>>
                         ELSE debug_regions
              inside(addr) == \E i \in 1..Len(regions) :
                                  /\ regions[i].lob <= addr
                                  /\ addr <= regions[i].upb
          IN  (Len(cpu'.backend) = 1) <=>
                  \/ regions = <<>>
                  \/ inside(entry.pc)
                  \/ \E j \in 1..Len(entry.mem) :
                         inside(entry.mem[j].addr)]_vars

\* C26: helper_qemu_log_printf_dump returns with valid_entries = 0; on a
\* CPU that logs, every slot whose bit was set, whatever the bitmap over
\* the staging slots, has been rendered once into the text buffer of the
\* current entry, in increasing slot order; on a CPU that does not log, no
\* text buffer changes.
C26_PrintfDumpRendersOnce ==
    [][PrintfDump =>
          LET valid == cpu.valid_entries
              txt == get_cpu_log_entry(cpu).txt_buffer
              new == get_cpu_log_entry(cpu').txt_buffer
              n == Cardinality(valid)
          IN  /\ ~aborted'
              /\ cpu'.valid_entries = {}
              /\ IF qemu_log_instr_check_enabled(cpu)
                 THEN /\ Len(new) = Len(txt) + n
                      /\ SubSeq(new, 1, Len(txt)) = txt
                      /\ {new[k] : k \in (Len(txt) + 1)..Len(new)} = valid
                      /\ \A j, k \in (Len(txt) + 1)..Len(new) :
                             j < k => new[j] < new[k]
                 ELSE cpu'.instr_info = cpu.instr_info]_vars

\* C27: the CPU_LOG_INSTR bit of the process-wide log flags is written only
\* by the callbacks that qemu_log_instr_global_switch schedules
\* (do_global_loglevel_switch, run in exclusive context): every step that
\* changes qemu_loglevel is such a callback; the start and stop helpers
\* that the guest runs on a CPU thread leave the flags alone.
C27_FlagWrittenOnMonitorPathOnly ==
    [][qemu_loglevel' # qemu_loglevel => RunGlobalLoglevelSwitch]_vars

\* C28: the log state of a CPU (level, filter list, ring, current entry) is
\* read and written only by the thread of that CPU, which is also where
\* the callbacks queued for it run: a step that changes or reads the log
\* state of the i-th CPU is made by the thread of the i-th CPU.  The
\* all-CPU start and stop helpers and the all-CPU filter operations leave
\* the log state of the other CPUs to callbacks.
C28_CpuStateOwnedByItsThread ==
    [][\A i \in 1..Len(machine.cpus) :
           \/ machine'.cpus[i].log_state # machine.cpus[i].log_state
           \/ i \in machine'.note.touched
           => machine'.note.caller = i]_vars

\* C29: a level switch that finds the CPU active with its start still
\* pending (starting set) and leaves it active at another level discards
\* the pending start and sets up a new one: after the switch starting is
\* set, the current entry carries a START event and trace_start is one
\* more than before.
C29_PendingStartIsRenewed ==
    [][last'.op = "switch" /\ last'.outcome = "discard"
       /\ cpu'.loglevel_active
       => /\ cpu'.starting
          /\ HasEvent(get_cpu_log_entry(cpu'), "START")
          /\ cpu'.trace_start = cpu.trace_start + 1]_vars

\* the commit numbers of the entries held in the ring, from slot curr up
\* to ring_head
RECURSIVE HeldFrom(_, _)
HeldFrom(s, curr) ==
    IF curr = s.ring_head THEN <<>>
    ELSE <<s.tags[curr + 1]>> \o HeldFrom(s, (curr + 1) % RingLen(s))

\* C30: in buffered mode a flush hands to emit_instr every entry the ring
\* held between ring_tail and ring_head when the flush was called, in
\* order, and after them, when tracing is disabled and the forced commit is
\* not dropped, the entry with the FLUSH event; also when the ring was
\* full, so that the forced commit makes ring_head catch ring_tail.
C30_FlushEmitsHeldEntries ==
    [][Step("flush") /\ cpu.buffered =>
        LET held == HeldFrom(cpu, cpu.ring_tail)
            n == Len(held)
            emitted == Tags(cpu'.backend)
        IN  IF qemu_log_instr_check_enabled(cpu) \/ cpu.force_drop
            THEN emitted = held
            ELSE /\ Len(emitted) = n + 1
                 /\ SubSeq(emitted, 1, n) = held
                 /\ HasEvent(cpu'.backend[n + 1].entry, "FLUSH")
    ]_vars

\* C31: after every level switch that is applied, loglevel is the level
\* asked for, also when the switch does nothing else, and loglevel_active
\* is: false for NONE, true for ALL, and for USER whether the mode switch
\* held by the current entry enters user mode, or, without a mode switch
\* in the entry, whether the CPU is in user mode.  A level that is none of
\* the three fails an assertion.
C31_LevelAndActivityAfterSwitch ==
    [][last'.op = "switch" =>
        LET arg == Head(work)
            entry == get_cpu_log_entry(cpu)
        IN  IF arg.next_level \notin {"NONE", "USER", "ALL"}
            THEN aborted' /\ cpu' = env
            ELSE last'.outcome # "abort" =>
                   /\ cpu'.loglevel = arg.next_level
                   /\ cpu'.loglevel_active =
                        IF arg.next_level = "NONE" THEN FALSE
                        ELSE IF arg.next_level = "ALL" THEN TRUE
                        ELSE IF "MODE_SWITCH" \in entry.flags
                        THEN entry.next_cpu_mode = "USER"
                        ELSE cpu_mode = "USER"
    ]_vars

\* a switch to USER that changed nothing found a mode switch to user mode
\* in the entry of a CPU that had left user mode again
C31_Witness ==
    /\ last.op = "switch" /\ last.outcome = "noop"
    /\ cpu.loglevel = "USER" /\ cpu.loglevel_active
    /\ "MODE_SWITCH" \in get_cpu_log_entry(cpu).flags
    /\ cpu_mode # "USER"

\* C32: qemu_log_instr_mode_switch(env, mode, pc) sets MODE_SWITCH and
\* next_cpu_mode = mode on the current entry and nothing else of the CPU;
\* it schedules one level switch, to the level the CPU has, with the pc
\* given and global false, exactly when the instruction-log bit is set,
\* the level is USER and (mode = USER) differs from loglevel_active, and
\* schedules nothing otherwise; loglevel and loglevel_active are not
\* changed by the call itself.
C32_ModeSwitchSchedulesOnChange ==
    [][\A mode \in Modes : ModeSwitch(mode, 1) =>
        LET entry == get_cpu_log_entry(cpu)
        IN  /\ cpu' = SetEntry(env,
                          [entry EXCEPT !.flags = @ \cup {"MODE_SWITCH"},
                                        !.next_cpu_mode = mode])
            /\ cpu'.loglevel = cpu.loglevel
            /\ cpu'.loglevel_active = cpu.loglevel_active
            /\ IF /\ "INSTR" \in qemu_loglevel
                  /\ cpu.loglevel = "USER"
                  /\ (mode = "USER") # cpu.loglevel_active
               THEN work' = Append(work,
                                [fn |-> "do_cpu_loglevel_switch",
                                 next_level |-> cpu.loglevel, pc |-> 1,
                                 global |-> FALSE, new_size |-> 0])
               ELSE work' = work
    ]_vars

\* a mode switch into user mode has scheduled the switch of a CPU at level
\* USER that was not active
C32_Witness ==
    /\ obs.s7.stage = 1
    /\ "MODE_SWITCH" \in get_cpu_log_entry(cpu).flags
    /\ get_cpu_log_entry(cpu).next_cpu_mode = "USER"
    /\ cpu.loglevel = "USER" /\ ~cpu.loglevel_active
    /\ Len(work) = 1 /\ work[1].next_level = "USER" /\ ~work[1].global

C34_StreamIsBracketed ==
    obs.stream.on => obs.stream.bad = {}

\* C35: at every point after qemu_log_instr_init the CPU has counted no
\* more stops than starts, trace_stop <= trace_start, also when the
\* instruction log was asked for on the command line, so that init
\* switched the CPU on.
C35_StopsNeverExceedStarts ==
    cpu.trace_stop <= cpu.trace_start

\* C36: entries_emitted is the number of emit_instr calls made for the CPU
\* since its init: it starts at zero and every operation adds to it the
\* number of calls it makes, for the commits of a streaming CPU and for
\* the entries a flush drains from the ring alike; an entry that is
\* dropped, rejected by a filter or overwritten in the ring adds nothing.
C36_EntriesEmittedCountsCalls ==
    [][/\ cpu'.entries_emitted = cpu.entries_emitted + Len(cpu'.backend)
       /\ last.op = "init" => cpu.entries_emitted = 0
    ]_vars

\* a flush has drained a ring after streaming commits were counted and
\* after commits that were never handed to the backend
C36_Witness ==
    /\ last.op = "flush" /\ cpu.buffered
    /\ Len(cpu.backend) >= 1
    /\ cpu.entries_emitted > Len(cpu.backend)
    /\ cpu.ncommit > cpu.entries_emitted

\* C37: a hook of the backend is called only when the backend has it: no
\* operation calls a hook that is NULL, neither emit_instr from a commit,
\* a flush or the stop of a level switch, also for a backend that is not
\* compiled in and whose row of trace_backends is all NULL, nor init, sync
\* or emit_debug.
C37_OnlyHooksThatAreThere ==
    \A i \in 1..Len(machine.backend.called) : machine.backend.called[i].there

\* the conversions of fmt that take an argument, from the i-th character
RECURSIVE NumConversions(_, _, _)
NumConversions(fmt, i, format) ==
    IF i > Len(fmt) THEN 0
    ELSE IF ~format THEN NumConversions(fmt, i + 1, fmt[i] = "%")
    ELSE IF fmt[i] = "d" THEN 1 + NumConversions(fmt, i + 1, FALSE)
    ELSE NumConversions(fmt, i + 1, fmt[i] # "%")

\* C38: qemu_log_gen_printf fails an assertion whenever the number of
\* conversions of fmt that take an argument differs from the length of the
\* type string, in both directions: more type characters than conversions,
\* and more conversions than type characters.
C38_FormatAndTypesExhaustedTogether ==
    LET call == machine.base.call
    IN  (call.fn = "printf" /\ call.outcome \in {"ok", "assert"}) =>
            (call.outcome = "assert"
                <=> NumConversions(call.fmt, 1, FALSE) # Len(call.qemu_format))

\* C39: qemu_log_gen_printf_flush emits the call of the render helper
\* exactly when force_flush holds, or the counter is not zero and
\* flush_early holds or the counter has reached the barrier; the counter is
\* zero after an emit and unchanged otherwise; and while every
\* qemu_log_gen_printf is followed by a flush, the slot reserved is below
\* the depth of the staging area.
C39_FlushEmitsAtBarrier ==
    /\ [][\A flush_early, force_flush \in BOOLEAN :
              TrGenPrintfFlush(flush_early, force_flush) =>
                  LET used == machine.base.printf_used_ptr
                      emit == \/ force_flush
                              \/ /\ used # 0
                                 /\ \/ flush_early
                                    \/ used >= QEMU_LOG_PRINTF_FLUSH_BARRIER
                  IN  /\ machine'.base.call.emitted <=> emit
                      /\ machine'.base.printf_used_ptr
                             = IF emit THEN 0 ELSE used]_vars
    /\ []((machine.base.flushed_each /\ machine.base.call.fn = "printf") =>
              /\ machine.base.call.outcome # "depth"
              /\ machine.base.call.ndx < QEMU_LOG_PRINTF_BUF_DEPTH)

\* a plain flush after a printf that filled the staging area emitted the
\* call and put the counter back to zero
C39_Witness ==
    /\ machine.base.flushed_each
    /\ machine.base.call.fn = "flush"
    /\ machine.base.call.emitted
    /\ machine.base.call.ndx = QEMU_LOG_PRINTF_FLUSH_BARRIER
    /\ machine.base.printf_used_ptr = 0
    /\ ~machine.base.pending

\* C40: helper_qemu_log_printf_dump comes to its end whatever the value of
\* valid_entries: each step of its loop clears the bit of the slot it has
\* just rendered and no other bit, for every slot from 0 to the highest
\* slot of the staging area.
C40_PrintfDumpTerminates ==
    [][PrintfDump =>
          /\ ~aborted'
          /\ qemu_log_instr_check_enabled(cpu) =>
                 \A ndx \in cpu.valid_entries, ub \in ShiftOutcomes :
                     /\ ndx < QEMU_LOG_PRINTF_BUF_DEPTH
                     /\ IntShiftMask(ndx, ub) = {ndx}]_vars

====
